---- MODULE Spec2Model ----
(***************************************************************************)
(* A model of oxdls (python-omexml-dls): the OME-XML document tree, the    *)
(* count setters that grow and shrink its child collections, the LSID     *)
(* identifier check, and the plate / well addressing.                      *)
(*                                                                         *)
(* Every method is modelled as its body executes on a view bound to a     *)
(* tree node.  A name that a body uses and nothing binds (NameError), an   *)
(* attribute nobody assigned (AttributeError), a failed assert and a      *)
(* failed list operation are modelled as the raise they are: the handler  *)
(* stops there and the tree keeps what was attached before the raise.     *)
(*                                                                         *)
(* Strings the code parses or formats (identifiers, numbers, well names)   *)
(* are sequences of one-character strings; tags are plain strings.  An    *)
(* absent attribute is a key outside the DOMAIN of the node's attrs.       *)
(***************************************************************************)
EXTENDS Integers, Sequences, FiniteSets, TLC

VARIABLES root, last, inp, uuid

vars == <<root, last, inp, uuid>>

----------------------------------------------------------------------------
(* Bounds *)

MaxCount == 3            \* largest value handed to a count setter
MaxImages == 3           \* caps on the nodes of each collection
MaxROIs == 2
MaxROIRefs == 2
MaxChannels == 3
MaxPlanes == 2
MaxTiffData == 2
MaxAnnotations == 1
MaxAnnotationRefs == 2
MaxCalls == 1            \* calls made on one LSID view
MaxRowIndex == 17        \* well rows named: -MaxRowIndex..MaxRowIndex
MaxColumnIndex == 99     \* well columns named: -1..MaxColumnIndex
MaxPlates == 1           \* plates of one document
MaxWells == 2            \* wells of one document, over all its plates
MaxWellRow == 1          \* wells are created at rows 0..MaxWellRow
MaxWellColumn == 2       \* wells are created at columns 0..MaxWellColumn
MaxMetadata == 3         \* original-metadata entries added to one container
MaxIDLen == 9            \* longest ROI identifier written

----------------------------------------------------------------------------
(* Character strings *)

Digits == <<"0", "1", "2", "3", "4", "5", "6", "7", "8", "9">>

RECURSIVE NatToStr(_)
NatToStr(n) ==
    IF n < 10 THEN <<Digits[n + 1]>>
    ELSE NatToStr(n \div 10) \o <<Digits[(n % 10) + 1]>>

\* str(value) of a Python int
IntToStr(n) == IF n < 0 THEN <<"-">> \o NatToStr(-n) ELSE NatToStr(n)

DigitVal(c) == CHOOSE d \in 0..9 : Digits[d + 1] = c

IsDigit(c) == \E d \in 1..10 : Digits[d] = c

RECURSIVE DigitsToNat(_)
DigitsToNat(s) ==
    IF Len(s) = 0 THEN 0
    ELSE 10 * DigitsToNat(SubSeq(s, 1, Len(s) - 1)) + DigitVal(s[Len(s)])

\* int(text): an optional sign followed by at least one decimal digit
IntParses(s) ==
    LET body == IF Len(s) > 0 /\ s[1] \in {"-", "+"} THEN Tail(s) ELSE s
    IN  Len(body) > 0 /\ \A i \in 1..Len(body) : IsDigit(body[i])

StrToInt(s) ==
    IF s[1] = "-" THEN 0 - DigitsToNat(Tail(s))
    ELSE IF s[1] = "+" THEN DigitsToNat(Tail(s))
    ELSE DigitsToNat(s)

\* str(uuid.uuid4()): hexadecimal digits and dashes, fresh per call
uuid4(k) == <<"f", "-">> \o NatToStr(k)

S_Image0 == <<"I", "m", "a", "g", "e", ":", "0">>
S_Pixels0 == <<"P", "i", "x", "e", "l", "s", ":", "0">>
S_Channel00 == <<"C", "h", "a", "n", "n", "e", "l", ":", "0", ":", "0">>
S_default_png == <<"d", "e", "f", "a", "u", "l", "t", ".", "p", "n", "g">>
S_false == <<"f", "a", "l", "s", "e">>
S_uint8 == <<"u", "i", "n", "t", "8">>
S_XYCZT == <<"X", "Y", "C", "Z", "T">>
S_XYCTZ == <<"X", "Y", "C", "T", "Z">>
S_now == <<"n", "o", "w">>
S_ROI == <<"R", "O", "I", ":">>
S_Marker == <<"M", "a", "r", "k", "e", "r", " ">>
S_Shape == <<"S", "h", "a", "p", "e", ":">>

----------------------------------------------------------------------------
(* The tree adapter: ElementTree elements *)

NoAttrs == [k \in {} |-> <<>>]
NoText == <<>>

\* Element.set(key, value)
SetAttr(a, k, v) == [x \in (DOMAIN a) \cup {k} |-> IF x = k THEN v ELSE a[x]]

HasAttr(n, k) == k \in DOMAIN n.attrs

Node(tag, attrs, text, kids) ==
    [tag |-> tag, attrs |-> attrs, text |-> text, kids |-> kids]

\* ElementTree.SubElement(parent, tag): a new, empty last child
SubElement(parent, tag) ==
    [parent EXCEPT !.kids = Append(@, Node(tag, NoAttrs, NoText, <<>>))]

\* Element.findall(tag): the positions of the children with that tag
FindAll(kids, tag) ==
    SelectSeq([i \in 1..Len(kids) |-> i], LAMBDA i : kids[i].tag = tag)

Count(kids, tag) == Len(FindAll(kids, tag))

\* python slice seq[from:], from >= 0 counted from zero
SliceFrom(s, from) == SubSeq(s, from + 1, Len(s))

\* the children left after Element.remove of the children at positions ps
RemoveAt(kids, ps) ==
    SelectSeq([i \in 1..Len(kids) |-> i], LAMBDA i : \A j \in 1..Len(ps) : ps[j] # i)

KeepAt(kids, idx) == [j \in 1..Len(idx) |-> kids[idx[j]]]

RemoveKids(kids, ps) == KeepAt(kids, RemoveAt(kids, ps))

----------------------------------------------------------------------------
(* The default document *)

DefaultChannel ==
    Node("Channel",
         SetAttr(SetAttr(NoAttrs, "ID", S_Channel00), "SamplesPerPixel", <<"1">>),
         NoText,
         <<Node("LightPath", NoAttrs, NoText, <<>>)>>)

DefaultPixelsAttrs ==
    SetAttr(SetAttr(SetAttr(SetAttr(SetAttr(SetAttr(SetAttr(SetAttr(SetAttr(SetAttr(
        NoAttrs,
        "BigEndian", S_false), "DimensionOrder", S_XYCZT), "ID", S_Pixels0),
        "Interleaved", S_false), "SizeC", <<"1">>), "SizeT", <<"1">>),
        "SizeX", <<"5", "1", "2">>), "SizeY", <<"5", "1", "2">>),
        "SizeZ", <<"1">>), "Type", S_uint8)

DefaultImage ==
    Node("Image",
         SetAttr(SetAttr(NoAttrs, "ID", S_Image0), "Name", S_default_png),
         NoText,
         <<Node("AcquisitionDate", NoAttrs, <<S_now>>, <<>>),
           Node("Pixels", DefaultPixelsAttrs, NoText, <<DefaultChannel>>)>>)

default_xml ==
    Node("OME", NoAttrs, NoText,
         <<DefaultImage, Node("StructuredAnnotations", NoAttrs, NoText, <<>>)>>)

----------------------------------------------------------------------------
(* Types.LSID: the identifier pattern and the validated ID setter *)

UpperCase == <<"A", "B", "C", "D", "E", "F", "G", "H", "I", "J", "K", "L", "M",
               "N", "O", "P", "Q", "R", "S", "T", "U", "V", "W", "X", "Y", "Z">>

LowerCase == <<"a", "b", "c", "d", "e", "f", "g", "h", "i", "j", "k", "l", "m",
               "n", "o", "p", "q", "r", "s", "t", "u", "v", "w", "x", "y", "z">>

\* re.IGNORECASE compares letters by their lower-case form
Lower(c) ==
    IF \E i \in 1..26 : UpperCase[i] = c
    THEN LowerCase[CHOOSE i \in 1..26 : UpperCase[i] = c]
    ELSE c

IsLetter(c) == \E i \in 1..26 : UpperCase[i] = c \/ LowerCase[i] = c

\* \w, the character class [\w\-\.] and \S
IsWord(c) == IsLetter(c) \/ IsDigit(c) \/ c = "_"

IsAuthChar(c) == IsWord(c) \/ c = "-" \/ c = "."

IsNonSpace(c) == c \notin {" ", "\t", "\n", "\r"}

\* a literal of the pattern matched at position pos of v, ignoring case
MatchLit(v, pos, lit) ==
    /\ pos + Len(lit) - 1 <= Len(v)
    /\ \A i \in 1..Len(lit) : Lower(v[pos + i - 1]) = Lower(lit[i])

S_urn_lsid == <<"u", "r", "n", ":", "l", "s", "i", "d", ":">>

\* ([\w\-\.]+\.[\w\-\.]+)+ matched on v[b..e]: a run of the class with a dot
\* that is neither its first nor its last character
MatchAuthority(v, b, e) ==
    /\ b <= e
    /\ \A i \in b..e : IsAuthChar(v[i])
    /\ \E i \in (b + 1)..(e - 1) : v[i] = "."

\* the first alternative: urn:lsid:<authority>:<restriction>:\S+
MatchUrn(restriction, v) ==
    /\ MatchLit(v, 1, S_urn_lsid)
    /\ \E e \in 10..Len(v) :
          /\ MatchAuthority(v, 10, e)
          /\ MatchLit(v, e + 1, <<":">> \o restriction \o <<":">>)
          /\ e + Len(restriction) + 3 <= Len(v)
          /\ IsNonSpace(v[e + Len(restriction) + 3])

\* the second alternative: <restriction>:\S+
MatchBare(restriction, v) ==
    /\ MatchLit(v, 1, restriction \o <<":">>)
    /\ Len(restriction) + 2 <= Len(v)
    /\ IsNonSpace(v[Len(restriction) + 2])

\* re.match(self.pattern, value, flags=re.IGNORECASE), as a truth value
check_ID(restriction, value) ==
    MatchUrn(restriction, value) \/ MatchBare(restriction, value)

\* LSID.set_ID on the bound node: the ValueError it raises for a value
\* that fails check_ID is caught and logged inside the setter
LSID_set_ID(restriction, node, value) ==
    IF ~check_ID(restriction, value)
    THEN [node |-> node, out |-> "ok"]
    ELSE [node |-> [node EXCEPT !.attrs = SetAttr(@, "ID", value)], out |-> "ok"]

\* LSID.__init__ -> _set_restriction: its body reads the unbound name
\* "restriction", so constructing any LSID view raises
LSID_init == "NameError"

\* K(node).check_ID(value): the view is built, then asked
new_check_ID(restriction, value) ==
    IF LSID_init # "ok" THEN LSID_init
    ELSE IF check_ID(restriction, value) THEN "match" ELSE "None"

\* K(node).ID = value: the view is built, then its setter runs
new_set_ID(restriction, node, value) ==
    IF LSID_init # "ok" THEN [node |-> node, out |-> LSID_init]
    ELSE LSID_set_ID(restriction, node, value)

----------------------------------------------------------------------------
(* The count setters.  Each returns the node it was bound to, as the call  *)
(* leaves it, and how the call ended.                                      *)

Ret(node, out) == [node |-> node, out |-> out]

\* set_image_count with a loop test of <= in place of <
set_image_count_loop_le(r, value) ==
    IF ~(value > 0) THEN Ret(r, "AssertionError")
    ELSE IF Count(r.kids, "Image") <= value
         THEN Ret(SubElement(r, "Image"), LSID_init)
         ELSE Ret(r, "ok")

\* OMEXML.set_image_count.  The shrink branch takes root.find(...), the
\* first Image element, and slices its children; root.remove of a child of
\* that Image raises ValueError.  The grow loop attaches an Image and then
\* builds its view, which raises (LSID_init), so lines 137-154 never run.
set_image_count(r, value) ==
    IF ~(value > 0) THEN Ret(r, "AssertionError")
    ELSE LET image_nodes ==
                 IF Count(r.kids, "Image") > value
                 THEN SliceFrom(r.kids[FindAll(r.kids, "Image")[1]].kids, value)
                 ELSE <<>>
         IN  IF image_nodes # <<>> THEN Ret(r, "ValueError")
             ELSE IF Count(r.kids, "Image") < value
                  THEN Ret(SubElement(r, "Image"), LSID_init)
                  ELSE Ret(r, "ok")

\* OMEXML.Pixels.set_channel_count.  The first pass of the grow loop
\* attaches a Channel and then builds its view, which raises (LSID_init),
\* so lines 919-922 never run.
set_channel_count(px, value) ==
    IF ~(value > 0) THEN Ret(px, "AssertionError")
    ELSE LET channels == FindAll(px.kids, "Channel")
         IN  IF Len(channels) > value
             THEN Ret([px EXCEPT !.kids = RemoveKids(@, SliceFrom(channels, value))], "ok")
             ELSE IF Len(channels) < value
                  THEN Ret(SubElement(px, "Channel"), LSID_init)
                  ELSE Ret(px, "ok")

RECURSIVE AddKids(_, _, _)
AddKids(node, tag, n) ==
    IF n <= 0 THEN node ELSE AddKids(SubElement(node, tag), tag, n - 1)

\* set_plane_count with the assertion of set_channel_count
set_plane_count_positive(px, value) ==
    IF ~(value > 0) THEN Ret(px, "AssertionError")
    ELSE LET planes == FindAll(px.kids, "Plane")
         IN  IF Len(planes) > value
             THEN Ret([px EXCEPT !.kids = RemoveKids(@, SliceFrom(planes, value))], "ok")
             ELSE Ret(AddKids(px, "Plane", value - Len(planes)), "ok")

\* OMEXML.Pixels.set_plane_count
set_plane_count(px, value) ==
    IF ~(value >= 0) THEN Ret(px, "AssertionError")
    ELSE LET planes == FindAll(px.kids, "Plane")
         IN  IF Len(planes) > value
             THEN Ret([px EXCEPT !.kids = RemoveKids(@, SliceFrom(planes, value))], "ok")
             ELSE Ret(AddKids(px, "Plane", value - Len(planes)), "ok")

\* OMEXML.Pixels.set_tiffdata_count: removes every TiffData, then adds anew
set_tiffdata_count(px, value) ==
    IF ~(value >= 0) THEN Ret(px, "AssertionError")
    ELSE Ret(AddKids([px EXCEPT !.kids = RemoveKids(@, FindAll(px.kids, "TiffData"))],
                     "TiffData", value), "ok")

\* OMEXML.ROIRef.set_ID and OMEXML.ROI.set_ID: "ROI:" + str(value)
ROI_set_ID(attrs, value) == SetAttr(attrs, "ID", S_ROI \o value)

\* the Rectangle that set_roi_count puts under the Union of a new ROI
NewRectangle(iteration) ==
    Node("Rectangle",
         SetAttr(SetAttr(SetAttr(SetAttr(SetAttr(SetAttr(SetAttr(SetAttr(SetAttr(
         SetAttr(SetAttr(NoAttrs,
             "ID", S_Shape \o IntToStr(iteration) \o <<":", "0">>),
             "TheZ", IntToStr(0)), "TheC", IntToStr(0)), "TheT", IntToStr(0)),
             "StrokeColor", IntToStr(-16776961)), "StrokeWidth", IntToStr(20)),
             "Text", IntToStr(iteration)), "Width", IntToStr(512)),
             "Height", IntToStr(512)), "X", IntToStr(0)), "Y", IntToStr(0)),
         NoText, <<>>)

NewROI(iteration) ==
    Node("ROI",
         SetAttr(ROI_set_ID(NoAttrs, IntToStr(iteration)),
                 "Name", S_Marker \o IntToStr(iteration)),
         NoText,
         <<Node("Union", NoAttrs, NoText, <<NewRectangle(iteration)>>)>>)

RECURSIVE roi_grow(_, _)
roi_grow(r, value) ==
    IF ~(Count(r.kids, "ROI") < value) THEN r
    ELSE roi_grow([r EXCEPT !.kids = Append(@, NewROI(Count(r.kids, "ROI") - 1))],
                  value)

\* OMEXML.set_roi_count.  The shrink branch slices the children of the
\* first ROI element, as set_image_count does with the first Image.
set_roi_count(r, value) ==
    IF ~(value > 0) THEN Ret(r, "AssertionError")
    ELSE LET roi_nodes ==
                 IF Count(r.kids, "ROI") > value
                 THEN SliceFrom(r.kids[FindAll(r.kids, "ROI")[1]].kids, value)
                 ELSE <<>>
         IN  IF roi_nodes # <<>> THEN Ret(r, "ValueError")
             ELSE Ret(roi_grow(r, value), "ok")

RECURSIVE roiref_grow(_, _)
roiref_grow(img, value) ==
    IF ~(Count(img.kids, "ROIRef") < value) THEN img
    ELSE roiref_grow(
             [img EXCEPT !.kids = Append(@,
                 Node("ROIRef",
                      ROI_set_ID(NoAttrs,
                                 S_ROI \o IntToStr(Count(img.kids, "ROIRef") - 1)),
                      NoText, <<>>))],
             value)

\* OMEXML.Image.set_roiref_count
set_roiref_count(img, value) ==
    IF ~(value > 0) THEN Ret(img, "AssertionError")
    ELSE LET roiref_nodes ==
                 IF Count(img.kids, "ROIRef") > value
                 THEN SliceFrom(img.kids[FindAll(img.kids, "ROIRef")[1]].kids, value)
                 ELSE <<>>
         IN  IF roiref_nodes # <<>> THEN Ret(img, "ValueError")
             ELSE Ret(roiref_grow(img, value), "ok")

\* Types.Annotation.set_annotation_ref_count.  The grow loop attaches an
\* AnnotationRef and then calls Reference(...), a name the method cannot
\* resolve (it is an attribute of Types, not a global).
set_annotation_ref_count(ann, value) ==
    IF ~(value >= 0) THEN Ret(ann, "AssertionError")
    ELSE LET annotation_refs == FindAll(ann.kids, "AnnotationRef")
         IN  IF Len(annotation_refs) > value
             THEN Ret([ann EXCEPT !.kids =
                           RemoveKids(@, SliceFrom(annotation_refs, value))], "ok")
             ELSE IF Len(annotation_refs) < value
                  THEN Ret(SubElement(ann, "AnnotationRef"), "NameError")
                  ELSE Ret(ann, "ok")

----------------------------------------------------------------------------
(* The original-metadata overlay *)

Keys == {"Make", "Model"}
Values == {"Zeiss"}

\* add_original_metadata putting the new annotation first
add_original_metadata_first(sa, key, value, k) ==
    [sa EXCEPT !.kids =
        <<Node("XMLAnnotation", SetAttr(NoAttrs, "ID", uuid4(k)), NoText,
               <<Node("sa:Value", NoAttrs, NoText,
                      <<Node("om:OriginalMetadata", NoAttrs, NoText,
                             <<Node("om:Key", NoAttrs, <<key>>, <<>>),
                               Node("om:Value", NoAttrs, <<value>>, <<>>)>>)>>)>>)>>
        \o @]

\* StructuredAnnotations.add_original_metadata; k numbers the uuid4() call
add_original_metadata(sa, key, value, k) ==
    [sa EXCEPT !.kids = Append(@,
        Node("XMLAnnotation", SetAttr(NoAttrs, "ID", uuid4(k)), NoText,
             <<Node("sa:Value", NoAttrs, NoText,
                    <<Node("om:OriginalMetadata", NoAttrs, NoText,
                           <<Node("om:Key", NoAttrs, <<key>>, <<>>),
                             Node("om:Value", NoAttrs, <<value>>, <<>>)>>)>>)>>))]

----------------------------------------------------------------------------
(* Where the views bind in the document *)

\* OMEXML.image(0).node, Image.Pixels.node, OMEXML.structured_annotations.node
ImagePos(r) == FindAll(r.kids, "Image")[1]
PixelsPos(r) == FindAll(r.kids[ImagePos(r)].kids, "Pixels")[1]
SAPos(r) == FindAll(r.kids, "StructuredAnnotations")[1]

Image0(r) == r.kids[ImagePos(r)]
Pixels0(r) == Image0(r).kids[PixelsPos(r)]
SA(r) == r.kids[SAPos(r)]
Annotations(r) == FindAll(SA(r).kids, "XMLAnnotation")
Annotation(r, a) == SA(r).kids[Annotations(r)[a]]

WithImage0(r, img) == [r EXCEPT !.kids[ImagePos(r)] = img]
WithPixels0(r, px) == [r EXCEPT !.kids[ImagePos(r)].kids[PixelsPos(r)] = px]
WithSA(r, sa) == [r EXCEPT !.kids[SAPos(r)] = sa]
WithAnnotation(r, a, ann) ==
    [r EXCEPT !.kids[SAPos(r)].kids[Annotations(r)[a]] = ann]

\* the count getters
get_image_count(r) == Count(r.kids, "Image")
get_roi_count(r) == Count(r.kids, "ROI")
get_roiref_count(r) == Count(Image0(r).kids, "ROIRef")
get_channel_count(r) == Count(Pixels0(r).kids, "Channel")
get_plane_count(r) == Count(Pixels0(r).kids, "Plane")
get_tiffdata_count(r) == Count(Pixels0(r).kids, "TiffData")
get_annotation_ref_count(r, a) == Count(Annotation(r, a).kids, "AnnotationRef")

----------------------------------------------------------------------------
(* The document under its count setters.  The setters fall into three     *)
(* families that act on disjoint subtrees, and no setter reads outside the *)
(* subtree of its family: the children of the root and of the first Image  *)
(* (images, ROIs, ROI references), the children of the Pixels element      *)
(* (channels, planes, tiff-data blocks) and the children of                *)
(* StructuredAnnotations (annotations and their references).  A run        *)
(* exercises one family, chosen at the start.                              *)

Families == {"root", "pixels", "annotations"}

CountArgs == (0 - 1)..MaxCount

NoInput == <<>>

\* what the last call was: the setter, the annotation it was bound to (0
\* when it was not an annotation), its argument, what the count getter
\* returned before the call, and how the call ended
Call(op, target, arg, pre, out) ==
    [op |-> op, target |-> target, arg |-> arg, pre |-> pre, out |-> out]

Init ==
    /\ root = default_xml
    /\ last = Call("init", 0, 0, 0, "ok")
    /\ inp \in {[family |-> f] : f \in Families}
    /\ uuid = 0

SetImageCount ==
    \E value \in CountArgs :
        LET res == set_image_count(root, value)
        IN  /\ inp.family = "root"
            /\ get_image_count(res.node) <= MaxImages
            /\ root' = res.node
            /\ last' = Call("set_image_count", 0, value, get_image_count(root), res.out)
            /\ UNCHANGED <<inp, uuid>>

SetRoiCount ==
    \E value \in CountArgs :
        LET res == set_roi_count(root, value)
        IN  /\ inp.family = "root"
            /\ get_roi_count(res.node) <= MaxROIs
            /\ root' = res.node
            /\ last' = Call("set_roi_count", 0, value, get_roi_count(root), res.out)
            /\ UNCHANGED <<inp, uuid>>

SetRoirefCount ==
    \E value \in CountArgs :
        LET res == set_roiref_count(Image0(root), value)
        IN  /\ inp.family = "root"
            /\ Count(res.node.kids, "ROIRef") <= MaxROIRefs
            /\ root' = WithImage0(root, res.node)
            /\ last' = Call("set_roiref_count", 0, value, get_roiref_count(root), res.out)
            /\ UNCHANGED <<inp, uuid>>

SetChannelCount ==
    \E value \in CountArgs :
        LET res == set_channel_count(Pixels0(root), value)
        IN  /\ inp.family = "pixels"
            /\ Count(res.node.kids, "Channel") <= MaxChannels
            /\ root' = WithPixels0(root, res.node)
            /\ last' = Call("set_channel_count", 0, value, get_channel_count(root), res.out)
            /\ UNCHANGED <<inp, uuid>>

SetPlaneCount ==
    \E value \in CountArgs :
        LET res == set_plane_count(Pixels0(root), value)
        IN  /\ inp.family = "pixels"
            /\ Count(res.node.kids, "Plane") <= MaxPlanes
            /\ root' = WithPixels0(root, res.node)
            /\ last' = Call("set_plane_count", 0, value, get_plane_count(root), res.out)
            /\ UNCHANGED <<inp, uuid>>

SetTiffdataCount ==
    \E value \in CountArgs :
        LET res == set_tiffdata_count(Pixels0(root), value)
        IN  /\ inp.family = "pixels"
            /\ Count(res.node.kids, "TiffData") <= MaxTiffData
            /\ root' = WithPixels0(root, res.node)
            /\ last' = Call("set_tiffdata_count", 0, value, get_tiffdata_count(root), res.out)
            /\ UNCHANGED <<inp, uuid>>

AddOriginalMetadata ==
    \E key \in Keys, value \in Values :
        /\ inp.family = "annotations"
        /\ Len(Annotations(root)) < MaxAnnotations
        /\ root' = WithSA(root, add_original_metadata(SA(root), key, value, uuid))
        /\ uuid' = uuid + 1
        /\ last' = Call("add_original_metadata", 0, 0, Len(Annotations(root)), "ok")
        /\ UNCHANGED inp

SetAnnotationRefCount ==
    \E a \in 1..Len(Annotations(root)), value \in CountArgs :
        LET res == set_annotation_ref_count(Annotation(root, a), value)
        IN  /\ inp.family = "annotations"
            /\ Count(res.node.kids, "AnnotationRef") <= MaxAnnotationRefs
            /\ root' = WithAnnotation(root, a, res.node)
            /\ last' = Call("set_annotation_ref_count", a, value,
                            get_annotation_ref_count(root, a), res.out)
            /\ UNCHANGED <<inp, uuid>>

Next ==
    \/ SetImageCount
    \/ SetRoiCount
    \/ SetRoirefCount
    \/ SetChannelCount
    \/ SetPlaneCount
    \/ SetTiffdataCount
    \/ AddOriginalMetadata
    \/ SetAnnotationRefCount

Spec == Init /\ [][Next]_vars

----------------------------------------------------------------------------
(* Properties of the count setters *)

CountSetters == {"set_image_count", "set_roi_count", "set_roiref_count",
                 "set_channel_count", "set_plane_count", "set_tiffdata_count",
                 "set_annotation_ref_count"}

\* what the count getter of the collection of setter op returns on tree r
CountOf(op, target, r) ==
    CASE op = "set_image_count" -> get_image_count(r)
      [] op = "set_roi_count" -> get_roi_count(r)
      [] op = "set_roiref_count" -> get_roiref_count(r)
      [] op = "set_channel_count" -> get_channel_count(r)
      [] op = "set_plane_count" -> get_plane_count(r)
      [] op = "set_tiffdata_count" -> get_tiffdata_count(r)
      [] op = "set_annotation_ref_count" -> get_annotation_ref_count(r, target)

AttrIs(n, k, v) == HasAttr(n, k) /\ n.attrs[k] = v

ChannelsOf(px) == KeepAt(px.kids, FindAll(px.kids, "Channel"))
ImagesOf(r) == KeepAt(r.kids, FindAll(r.kids, "Image"))

\* C1: after channel_count = n with n above the current count (3 on the
\* default document) the call has completed, the Pixels node has exactly n
\* Channel children, every one carries an ID, the IDs are pairwise
\* distinct, and every new Channel has SamplesPerPixel 1.
C1_ChannelGrowthCompletes ==
    (last.op = "set_channel_count" /\ last.arg > last.pre) =>
        LET chs == ChannelsOf(Pixels0(root))
        IN  /\ last.out = "ok"
            /\ Len(chs) = last.arg
            /\ \A i \in 1..Len(chs) : HasAttr(chs[i], "ID")
            /\ \A i, j \in 1..Len(chs) :
                   i # j => chs[i].attrs["ID"] # chs[j].attrs["ID"]
            /\ \A i \in (last.pre + 1)..Len(chs) :
                   AttrIs(chs[i], "SamplesPerPixel", <<"1">>)

\* C2: for every collection and allowed counts m < n, setting the count to
\* n from m and then back to m leaves the count getter returning m.
C2_GrowThenShrinkRestoresCount ==
    [][(/\ last.op \in CountSetters
        /\ last.arg > last.pre
        /\ last.pre > 0
        /\ last'.op = last.op
        /\ last'.target = last.target
        /\ last'.arg = last.pre)
       => CountOf(last'.op, last'.target, root') = last.pre]_vars

\* C3: setting image_count to the value get_image_count returns creates no
\* node and removes none: the whole tree is as it was before the call.
C3_ImageCountIdempotent ==
    [][(last'.op = "set_image_count" /\ last'.arg = get_image_count(root))
       => root' = root]_vars

C3_Witness ==
    /\ last.op = "set_image_count"
    /\ last.arg = last.pre
    /\ last.pre >= 2
    /\ get_image_count(root) = last.pre

IsDefaultImage(img) ==
    /\ HasAttr(img, "ID")
    /\ AttrIs(img, "Name", S_default_png)
    /\ Count(img.kids, "AcquisitionDate") = 1
    /\ Count(img.kids, "Pixels") = 1
    /\ LET px == img.kids[FindAll(img.kids, "Pixels")[1]]
       IN  /\ AttrIs(px, "SizeX", <<"5", "1", "2">>)
           /\ AttrIs(px, "SizeY", <<"5", "1", "2">>)
           /\ AttrIs(px, "SizeZ", <<"1">>)
           /\ AttrIs(px, "SizeC", <<"1">>)
           /\ AttrIs(px, "SizeT", <<"1">>)
           /\ AttrIs(px, "Type", S_uint8)
           /\ Count(px.kids, "Channel") = 1
           /\ HasAttr(ChannelsOf(px)[1], "ID")
           /\ AttrIs(ChannelsOf(px)[1], "SamplesPerPixel", <<"1">>)

\* C5: every Image that set_image_count creates is a default image whose ID
\* differs from the ID of every other Image, and shrinking image_count to n
\* leaves exactly n Image nodes.
C5_ImageGrowthDefaults ==
    (last.op = "set_image_count" /\ last.arg > 0) =>
        LET imgs == ImagesOf(root)
        IN  /\ last.arg > last.pre =>
                  \A i \in (last.pre + 1)..Len(imgs) :
                      /\ IsDefaultImage(imgs[i])
                      /\ \A j \in 1..Len(imgs) :
                             (j # i /\ HasAttr(imgs[j], "ID"))
                                 => imgs[j].attrs["ID"] # imgs[i].attrs["ID"]
            /\ last.arg < last.pre => Len(imgs) = last.arg

----------------------------------------------------------------------------
(* An LSID view under check_ID and set_ID.  The view is bound to an entity *)
(* node, root, and carries the restriction of its kind; a candidate is    *)
(* put together from a prefix, a kind token, a separator and a suffix.    *)

S_K_Image == <<"I", "m", "a", "g", "e">>
S_K_Channel == <<"C", "h", "a", "n", "n", "e", "l">>
S_K_Annotation == <<"A", "n", "n", "o", "t", "a", "t", "i", "o", "n">>
S_K_Shape == <<"S", "h", "a", "p", "e">>
S_K_LightSource == <<"L", "i", "g", "h", "t", "S", "o", "u", "r", "c", "e">>
S_K_Instrument == <<"I", "n", "s", "t", "r", "u", "m", "e", "n", "t">>
S_K_Well == <<"W", "e", "l", "l">>

\* the restrictions of Image, Channel, Annotation, Shape, LightSource and of
\* the Reference that Image.set_InstrumentRef builds
Kinds == {S_K_Image, S_K_Channel, S_K_Annotation, S_K_Shape, S_K_LightSource,
          S_K_Instrument}

ToLower(str) == [i \in 1..Len(str) |-> Lower(str[i])]

S_urn_ab == S_urn_lsid \o <<"a", ".", "b", ":">>
S_urn_nodot == S_urn_lsid \o <<"a", "b", ":">>

Prefixes == {<<>>, S_urn_ab, S_urn_nodot}
Tokens(restriction) == {restriction, ToLower(restriction), S_K_Well, <<>>}
Separators == {<<":">>, <<>>}
Suffixes == {<<>>, <<"0">>, <<" ", "0">>, <<"7", ":", "k">>}

Candidate(restriction, pre, tok, sep, suf) ==
    [restriction |-> restriction, pre |-> pre, tok |-> tok, sep |-> sep, suf |-> suf]

Value(c) == c.pre \o c.tok \o c.sep \o c.suf

InitID ==
    /\ \E restriction \in Kinds :
          /\ inp = Candidate(restriction, <<>>, <<>>, <<>>, <<>>)
          /\ root \in {Node("Entity", NoAttrs, NoText, <<>>),
                       Node("Entity",
                            SetAttr(NoAttrs, "ID", restriction \o <<":", "0">>),
                            NoText, <<>>),
                       Node("Entity",
                            SetAttr(NoAttrs, "ID",
                                    S_urn_ab \o restriction \o <<":", "0">>),
                            NoText, <<>>)}
    /\ last = [op |-> "init", out |-> "ok", n |-> 0]
    /\ uuid = 0

CheckID ==
    \E pre \in Prefixes, tok \in Tokens(inp.restriction),
       sep \in Separators, suf \in Suffixes :
        LET c == Candidate(inp.restriction, pre, tok, sep, suf)
        IN  /\ last.n < MaxCalls
            /\ inp' = c
            /\ last' = [op |-> "check_ID",
                        out |-> new_check_ID(c.restriction, Value(c)),
                        n |-> last.n + 1]
            /\ UNCHANGED <<root, uuid>>

SetID ==
    \E pre \in Prefixes, tok \in Tokens(inp.restriction),
       sep \in Separators, suf \in Suffixes :
        LET c == Candidate(inp.restriction, pre, tok, sep, suf)
            res == new_set_ID(c.restriction, root, Value(c))
        IN  /\ last.n < MaxCalls
            /\ inp' = c
            /\ root' = res.node
            /\ last' = [op |-> "set_ID", out |-> res.out, n |-> last.n + 1]
            /\ UNCHANGED uuid

NextID == CheckID \/ SetID

SpecID == InitID /\ [][NextID]_vars

WhitespaceFree(str) == \A i \in 1..Len(str) : str[i] \notin {" ", "\t", "\n", "\r"}

\* C6: for every kind K and every non-empty whitespace-free suffix s the
\* check for K accepts "K:s" and "urn:lsid:a.b:K:s", also when the K token
\* differs from K in letter case only, and it rejects the empty string.
C6_CheckIDAcceptsKindSuffix ==
    (last.op = "check_ID") =>
        /\ (/\ inp.pre \in {<<>>, S_urn_ab}
            /\ ToLower(inp.tok) = ToLower(inp.restriction)
            /\ inp.sep = <<":">>
            /\ inp.suf # <<>>
            /\ WhitespaceFree(inp.suf)) => last.out = "match"
        /\ Value(inp) = <<>> => last.out = "None"

\* C7: set_ID of an LSID view never raises; a value that fails the pattern
\* of the view's kind is not written and the ID attribute stays as it was;
\* a value that passes is written and is what get_ID then returns.
C7_SetIDValidates ==
    [][(last'.op = "set_ID") =>
        /\ last'.out = "ok"
        /\ IF check_ID(inp'.restriction, Value(inp'))
           THEN AttrIs(root', "ID", Value(inp'))
           ELSE root' = root]_vars

----------------------------------------------------------------------------
(* Plate.get_well_name *)

NC_LETTER == <<"l", "e", "t", "t", "e", "r">>
NC_NUMBER == <<"n", "u", "m", "b", "e", "r">>

Alphabet == <<"A", "B", "C", "D", "E", "F", "G", "H",
              "I", "J", "K", "L", "M", "N", "O", "P">>

\* "%02d" % n
Fmt02d(n) ==
    IF n < 0 THEN <<"-">> \o NatToStr(0 - n)
    ELSE IF n < 10 THEN <<"0">> \o NatToStr(n)
    ELSE NatToStr(n)

\* "ABCDEFGHIJKLMNOP"[i]: python indexing, a negative i counts from the end
InRange(i) == (0 - Len(Alphabet)) <= i /\ i < Len(Alphabet)
Letter(i) == IF i >= 0 THEN Alphabet[i + 1] ELSE Alphabet[Len(Alphabet) + i + 1]

\* Well.get_Row / get_Column: get_int_attr
get_Row(well) == StrToInt(well.attrs["Row"])
get_Column(well) == StrToInt(well.attrs["Column"])

\* self.RowNamingConvention or NC_LETTER, self.ColumnNamingConvention or NC_NUMBER
RowConvention(plate) ==
    IF HasAttr(plate, "RowNamingConvention")
    THEN plate.attrs["RowNamingConvention"] ELSE NC_LETTER
ColumnConvention(plate) ==
    IF HasAttr(plate, "ColumnNamingConvention")
    THEN plate.attrs["ColumnNamingConvention"] ELSE NC_NUMBER

\* one element of the list that get_well_name joins
NamePart(i, convention) ==
    IF convention = NC_NUMBER THEN [out |-> "ok", str |-> Fmt02d(i + 1)]
    ELSE IF InRange(i) THEN [out |-> "ok", str |-> <<Letter(i)>>]
    ELSE [out |-> "IndexError", str |-> <<>>]

\* the name with the number part rendering the index itself
get_well_name_zero_based(plate, well) ==
    LET rowPart == NamePart(get_Row(well) - 1, RowConvention(plate))
        columnPart == NamePart(get_Column(well) - 1, ColumnConvention(plate))
    IN  IF rowPart.out # "ok" THEN [out |-> rowPart.out, name |-> <<>>]
        ELSE IF columnPart.out # "ok" THEN [out |-> columnPart.out, name |-> <<>>]
        ELSE [out |-> "ok", name |-> rowPart.str \o columnPart.str]

\* Plate.get_well_name
get_well_name(plate, well) ==
    LET rowPart == NamePart(get_Row(well), RowConvention(plate))
        columnPart == NamePart(get_Column(well), ColumnConvention(plate))
    IN  IF rowPart.out # "ok" THEN [out |-> rowPart.out, name |-> <<>>]
        ELSE IF columnPart.out # "ok" THEN [out |-> columnPart.out, name |-> <<>>]
        ELSE [out |-> "ok", name |-> rowPart.str \o columnPart.str]

\* Well.set_Row, Well.set_Column, Well.set_ID on a new Well element
NewWell(row, column, well_id) ==
    Node("Well",
         SetAttr(SetAttr(SetAttr(NoAttrs, "Row", IntToStr(row)),
                         "Column", IntToStr(column)), "ID", well_id),
         NoText, <<>>)

\* the naming conventions a plate can carry: none set, letter or number
Conventions == {<<>>, NC_LETTER, NC_NUMBER}

\* Plate.set_RowNamingConvention / set_ColumnNamingConvention
WithConventions(plate, rowconv, colconv) ==
    LET p1 == IF rowconv = <<>> THEN plate
              ELSE [plate EXCEPT !.attrs = SetAttr(@, "RowNamingConvention", rowconv)]
    IN  IF colconv = <<>> THEN p1
        ELSE [p1 EXCEPT !.attrs = SetAttr(@, "ColumnNamingConvention", colconv)]

S_WellID == <<"W", "e", "l", "l", ":", "0">>

\* a plate with its conventions and one well, whose name is asked for
InitName ==
    /\ inp \in [row : (0 - MaxRowIndex)..MaxRowIndex,
                column : (0 - 1)..MaxColumnIndex,
                rowconv : Conventions,
                colconv : Conventions]
    /\ root = [WithConventions(Node("Plate", NoAttrs, NoText, <<>>),
                               inp.rowconv, inp.colconv)
               EXCEPT !.kids = <<NewWell(inp.row, inp.column, S_WellID)>>]
    /\ last = [op |-> "init", out |-> "ok", name |-> <<>>]
    /\ uuid = 0

GetWellName ==
    /\ last.op = "init"
    /\ LET res == get_well_name(root, root.kids[1])
       IN  last' = [op |-> "get_well_name", out |-> res.out, name |-> res.name]
    /\ UNCHANGED <<root, inp, uuid>>

NextName == GetWellName

SpecName == InitName /\ [][NextName]_vars

IsLetterAxis(conv, default) == conv = NC_LETTER \/ (conv = <<>> /\ default = NC_LETTER)

\* the part the claim gives an axis: the i-th letter of A..P, or i+1 as two
\* decimal digits
ClaimedPart(i, conv, default) ==
    IF IsLetterAxis(conv, default) THEN <<Alphabet[i + 1]>>
    ELSE <<Digits[((i + 1) \div 10) + 1], Digits[((i + 1) % 10) + 1]>>

C9_LetterIndexOutOfRangeRejected ==
    (/\ last.op = "get_well_name"
     /\ \/ IsLetterAxis(inp.rowconv, NC_LETTER) /\ inp.row \notin 0..15
        \/ IsLetterAxis(inp.colconv, NC_NUMBER) /\ inp.column \notin 0..15)
        => last.out = "IndexError"

----------------------------------------------------------------------------
(* Plates and wells *)

\* the default arguments str(uuid.uuid4()) of newPlate and of
\* WellsDucktype.new: each is evaluated once, when the function is defined
newPlate_plate_id == <<"f", "-", "p">>
new_well_id == <<"f", "-", "w">>

S_B03 == <<"B", "0", "3">>
S_plate == <<"p">>

\* PlatesDucktype.__getitem__ / __len__
PlatePos(r, p) == FindAll(r.kids, "Plate")[p]
Plate(r, p) == r.kids[PlatePos(r, p)]
plates_len(r) == Count(r.kids, "Plate")

\* PlatesDucktype.newPlate
newPlate(r, name, plate_id) ==
    [r EXCEPT !.kids =
        Append(@, Node("Plate",
                       SetAttr(SetAttr(NoAttrs, "ID", plate_id), "Name", name),
                       NoText, <<>>))]

\* WellsDucktype.__len__ and the findall of __getitem__
all_wells(plate) ==
    [i \in 1..Count(plate.kids, "Well") |-> plate.kids[FindAll(plate.kids, "Well")[i]]]
wells_len(plate) == Count(plate.kids, "Well")

\* WellsDucktype.new
WellsDucktype_new(plate, row, column, well_id) ==
    [plate EXCEPT !.kids = Append(@, NewWell(row, column, well_id))]

\* Well.get_ID
Well_get_ID(well) == IF HasAttr(well, "ID") THEN <<well.attrs["ID"]>> ELSE <<>>

\* the keys of a lookup: a string, a (row, column) pair or a list index
StrKey(s) == [kind |-> "str", s |-> s, r |-> 0, c |-> 0, i |-> 0]
TupleKey(r, c) == [kind |-> "tuple", s |-> <<>>, r |-> r, c |-> c, i |-> 0]
IntKey(i) == [kind |-> "int", s |-> <<>>, r |-> 0, c |-> 0, i |-> i]

FirstIn(S) == CHOOSE i \in S : \A j \in S : i <= j

\* WellsDucktype.__getitem__: well is the place of the returned well in
\* all_wells, 0 for None
WellsDucktype_getitem(plate, key) ==
    LET wells == all_wells(plate)
        n == Len(wells)
        byPosition == {i \in 1..n : /\ get_Row(wells[i]) = key.r
                                    /\ get_Column(wells[i]) = key.c}
        raises(i) == get_well_name(plate, wells[i]).out # "ok"
        hit(i) == /\ key.kind = "str"
                  /\ \/ get_well_name(plate, wells[i]).name = key.s
                     \/ Well_get_ID(wells[i]) = <<key.s>>
        stops == {i \in 1..n : raises(i) \/ hit(i)}
    IN  IF key.kind = "tuple" /\ byPosition # {}
        THEN [out |-> "ok", well |-> FirstIn(byPosition)]
        ELSE IF key.kind = "int"
        THEN IF (0 - n) <= key.i /\ key.i < n
             THEN [out |-> "ok", well |-> IF key.i >= 0 THEN key.i + 1 ELSE n + key.i + 1]
             ELSE [out |-> "IndexError", well |-> 0]
        ELSE IF stops = {} THEN [out |-> "ok", well |-> 0]
        ELSE IF raises(FirstIn(stops)) THEN [out |-> "IndexError", well |-> 0]
        ELSE [out |-> "ok", well |-> FirstIn(stops)]

WellRows == 0..MaxWellRow
WellColumns == 0..MaxWellColumn
WellIDs == {new_well_id, S_B03}
WellNames == {<<Alphabet[r + 1]>> \o Fmt02d(c + 1) : r \in WellRows, c \in WellColumns}
WellKeys ==
    {StrKey(s) : s \in WellNames \cup WellIDs}
    \cup {TupleKey(r, c) : r \in WellRows, c \in WellColumns}
    \cup {IntKey(i) : i \in (0 - 1)..(MaxWells - 1)}

total_wells(r) ==
    LET RECURSIVE Sum(_)
        Sum(p) == IF p = 0 THEN 0 ELSE wells_len(Plate(r, p)) + Sum(p - 1)
    IN  Sum(plates_len(r))

PlateCall(op, p, key, out, well) ==
    [op |-> op, plate |-> p, key |-> key, out |-> out, well |-> well]

InitPlate ==
    /\ root = default_xml
    /\ last = PlateCall("init", 0, IntKey(0), "ok", 0)
    /\ inp = NoInput
    /\ uuid = 0

NewPlate ==
    /\ plates_len(root) < MaxPlates
    /\ root' = newPlate(root, S_plate, newPlate_plate_id)
    /\ last' = PlateCall("newPlate", plates_len(root) + 1, IntKey(0), "ok", 0)
    /\ UNCHANGED <<inp, uuid>>

WellNew ==
    \E p \in 1..plates_len(root), row \in WellRows, column \in WellColumns,
       well_id \in WellIDs :
        /\ total_wells(root) < MaxWells
        /\ root' = [root EXCEPT !.kids[PlatePos(root, p)] =
                        WellsDucktype_new(@, row, column, well_id)]
        /\ last' = PlateCall("Well.new", p, TupleKey(row, column), "ok",
                             wells_len(Plate(root, p)) + 1)
        /\ UNCHANGED <<inp, uuid>>

WellGetItem ==
    \E p \in 1..plates_len(root), key \in WellKeys :
        LET res == WellsDucktype_getitem(Plate(root, p), key)
        IN  /\ last' = PlateCall("Well.__getitem__", p, key, res.out, res.well)
            /\ UNCHANGED <<root, inp, uuid>>

NextPlate == NewPlate \/ WellNew \/ WellGetItem

SpecPlate == InitPlate /\ [][NextPlate]_vars

AloneAtPosition(wells, i) ==
    \A j \in 1..Len(wells) :
        (/\ get_Row(wells[j]) = get_Row(wells[i])
         /\ get_Column(wells[j]) = get_Column(wells[i])) => j = i

\* C10: on a plate with the default conventions, a well created by
\* Well.new(r, c) where the plate holds no other well at (r, c) is the well
\* that Well[its derived name] returns (Row r, Column c), and Well[(r, c)]
\* returns the same well.
C10_NewWellFoundByNameAndPosition ==
    last.op = "Well.__getitem__" =>
        LET plate == Plate(root, last.plate)
            wells == all_wells(plate)
        IN  \A i \in 1..Len(wells) :
                (/\ AloneAtPosition(wells, i)
                 /\ \/ last.key = StrKey(get_well_name(plate, wells[i]).name)
                    \/ last.key = TupleKey(get_Row(wells[i]), get_Column(wells[i])))
                    => /\ last.out = "ok"
                       /\ last.well = i

\* C11: Well[key] for a string key resolves in two ordered passes: the first
\* well in document order whose derived name equals key is returned, even
\* when an earlier well has an ID equal to key; only when no name matches,
\* the first well whose ID equals key; None when neither matches; the
\* lookup never raises.
C11_StringLookupTwoPasses ==
    (last.op = "Well.__getitem__" /\ last.key.kind = "str") =>
        LET plate == Plate(root, last.plate)
            wells == all_wells(plate)
            byName == {i \in 1..Len(wells) :
                          get_well_name(plate, wells[i]).name = last.key.s}
            byID == {i \in 1..Len(wells) : Well_get_ID(wells[i]) = <<last.key.s>>}
        IN  /\ last.out = "ok"
            /\ last.well = IF byName # {} THEN FirstIn(byName)
                           ELSE IF byID # {} THEN FirstIn(byID)
                           ELSE 0

----------------------------------------------------------------------------
(* Original metadata: iteration and lookup *)

RECURSIVE Flatten(_)
Flatten(seqs) == IF seqs = <<>> THEN <<>> ELSE Head(seqs) \o Flatten(Tail(seqs))

\* Element.findall(tag) as the children themselves
Children(node, tag) ==
    [i \in 1..Count(node.kids, tag) |-> node.kids[FindAll(node.kids, tag)[i]]]

\* the innermost loop body of iter_original_metadata for one
\* OriginalMetadata node: a (id, key, value) item, nothing when the Key or
\* the Value child is missing, and the AttributeError of om_node.toxml()
\* when a child is there without text
OriginalMetadataItem(annotation_id, om_node) ==
    LET key_nodes == Children(om_node, "om:Key")
        value_nodes == Children(om_node, "om:Value")
    IN  IF key_nodes = <<>> \/ value_nodes = <<>> THEN <<>>
        ELSE IF key_nodes[1].text # <<>> /\ value_nodes[1].text # <<>>
        THEN <<[kind |-> "item", id |-> annotation_id,
                key |-> key_nodes[1].text[1], value |-> value_nodes[1].text[1]]>>
        ELSE <<[kind |-> "AttributeError", id |-> annotation_id,
                key |-> "", value |-> ""]>>

\* StructuredAnnotations.iter_original_metadata: what the generator does,
\* in order, when it is run to its end
iter_original_metadata(sa) ==
    LET ofValue(id, xa_value_node) ==
            Flatten([i \in 1..Count(xa_value_node.kids, "om:OriginalMetadata") |->
                        OriginalMetadataItem(id,
                            Children(xa_value_node, "om:OriginalMetadata")[i])])
        ofAnnotation(annotation_node) ==
            Flatten([i \in 1..Count(annotation_node.kids, "sa:Value") |->
                        ofValue(IF HasAttr(annotation_node, "ID")
                                THEN <<annotation_node.attrs["ID"]>> ELSE <<>>,
                                Children(annotation_node, "sa:Value")[i])])
    IN  Flatten([i \in 1..Count(sa.kids, "XMLAnnotation") |->
                    ofAnnotation(Children(sa, "XMLAnnotation")[i])])

LastIn(S) == CHOOSE i \in S : \A j \in S : j <= i

\* get_original_metadata_value returning the last entry of the key
get_original_metadata_value_last(sa, key, default) ==
    LET items == iter_original_metadata(sa)
        stops == {i \in 1..Len(items) :
                     items[i].kind # "item" \/ items[i].key = key}
    IN  IF stops = {} THEN [out |-> "ok", value |-> default]
        ELSE IF items[LastIn(stops)].kind # "item"
        THEN [out |-> items[LastIn(stops)].kind, value |-> default]
        ELSE [out |-> "ok", value |-> items[LastIn(stops)].value]

\* StructuredAnnotations.get_original_metadata_value: the generator is
\* consumed up to the first entry of the key
get_original_metadata_value(sa, key, default) ==
    LET items == iter_original_metadata(sa)
        stops == {i \in 1..Len(items) :
                     items[i].kind # "item" \/ items[i].key = key}
    IN  IF stops = {} THEN [out |-> "ok", value |-> default]
        ELSE IF items[FirstIn(stops)].kind # "item"
        THEN [out |-> items[FirstIn(stops)].kind, value |-> default]
        ELSE [out |-> "ok", value |-> items[FirstIn(stops)].value]

\* the generator of iter_original_metadata run to its end, as a list
\* comprehension does: the entries yielded, or the raise that stops it
list_original_metadata(sa) ==
    LET items == iter_original_metadata(sa)
        raises == {i \in 1..Len(items) : items[i].kind # "item"}
    IN  IF raises = {} THEN [out |-> "ok", items |-> items]
        ELSE [out |-> items[FirstIn(raises)].kind,
              items |-> SubSeq(items, 1, FirstIn(raises) - 1)]

\* StructuredAnnotations.has_original_metadata: any() of a list built from
\* the whole iteration
has_original_metadata(sa, key) ==
    LET all == list_original_metadata(sa)
    IN  [out |-> all.out,
         result |-> all.out = "ok" /\ \E i \in 1..Len(all.items) : all.items[i].key = key]

\* OriginalMetadata.keys
OriginalMetadata_keys(sa) ==
    LET all == list_original_metadata(sa)
    IN  [out |-> all.out,
         keys |-> IF all.out = "ok"
                  THEN [i \in 1..Len(all.items) |-> all.items[i].key] ELSE <<>>]

MetaValues == Values \cup {"Leica"}
MetaDefaults == {"default"}

MetaCall(op, key, value, out) ==
    [op |-> op, key |-> key, value |-> value, out |-> out]

\* inp is the list of the (key, value) pairs added so far, in call order
InitMeta ==
    /\ root = default_xml
    /\ last = MetaCall("init", "", "", "ok")
    /\ inp = <<>>
    /\ uuid = 0

MetaAdd ==
    \E key \in Keys, value \in MetaValues :
        /\ Len(inp) < MaxMetadata
        /\ root' = WithSA(root, add_original_metadata(SA(root), key, value, uuid))
        /\ uuid' = uuid + 1
        /\ inp' = Append(inp, <<key, value>>)
        /\ last' = MetaCall("add_original_metadata", key, value, "ok")

MetaGet ==
    \E key \in Keys, default \in MetaDefaults :
        LET res == get_original_metadata_value(SA(root), key, default)
        IN  /\ last' = MetaCall("get_original_metadata_value", key, res.value, res.out)
            /\ UNCHANGED <<root, inp, uuid>>

MetaHas ==
    \E key \in Keys :
        LET res == has_original_metadata(SA(root), key)
        IN  /\ last' = MetaCall("has_original_metadata", key,
                                IF res.result THEN "True" ELSE "False", res.out)
            /\ UNCHANGED <<root, inp, uuid>>

MetaKeys ==
    LET res == OriginalMetadata_keys(SA(root))
    IN  /\ last' = MetaCall("keys", "", res.keys, res.out)
        /\ UNCHANGED <<root, inp, uuid>>

NextMeta == MetaAdd \/ MetaGet \/ MetaHas \/ MetaKeys

SpecMeta == InitMeta /\ [][NextMeta]_vars

\* C12: after any sequence of add_original_metadata calls,
\* get_original_metadata_value(key, default) returns the value of the first
\* added entry whose key equals key, and the default when no entry has it.
C12_LookupReturnsFirstMatch ==
    (last.op = "get_original_metadata_value") =>
        LET matching == {i \in 1..Len(inp) : inp[i][1] = last.key}
        IN  /\ last.out = "ok"
            /\ last.value = IF matching = {} THEN "default"
                            ELSE inp[FirstIn(matching)][2]

C12_Witness ==
    /\ last.op = "get_original_metadata_value"
    /\ Len(inp) >= 2
    /\ inp[1] = <<"Make", "Zeiss">>
    /\ inp[2] = <<"Make", "Leica">>
    /\ last.key = "Make"
    /\ last.value = "Zeiss"

\* C30: add_original_metadata(key, value) makes the iteration yield what it
\* yielded before followed by the one entry (id, (key, value)), id being
\* the ID of the new annotation node and of no annotation that was there;
\* nothing else of the document changes; has_original_metadata(key) is
\* then true, and has_original_metadata(k) is true exactly when
\* get_original_metadata_value(k, d) does not return d and exactly when k
\* is among OriginalMetadata.keys().
C30_AddAppendsOneEntry ==
    [][(last'.op = "add_original_metadata") =>
        LET before == list_original_metadata(SA(root))
            after == list_original_metadata(SA(root'))
            added == SA(root').kids[Len(SA(root').kids)]
            keys == OriginalMetadata_keys(SA(root')).keys
        IN  /\ after.out = "ok"
            /\ HasAttr(added, "ID")
            /\ after.items =
                   Append(before.items,
                          [kind |-> "item", id |-> <<added.attrs["ID"]>>,
                           key |-> last'.key, value |-> last'.value])
            /\ \A a \in 1..Len(Annotations(root)) :
                   ~AttrIs(Annotation(root, a), "ID", added.attrs["ID"])
            /\ [root' EXCEPT !.kids[SAPos(root)].kids =
                               SubSeq(@, 1, Len(@) - 1)] = root
            /\ has_original_metadata(SA(root'), last'.key).result
            /\ \A k \in Keys \cup {"Artist"} :
                   /\ has_original_metadata(SA(root'), k).result
                          <=> get_original_metadata_value(SA(root'), k, "default").value
                                  # "default"
                   /\ has_original_metadata(SA(root'), k).result
                          <=> \E i \in 1..Len(keys) : keys[i] = k]_vars

C30_Witness ==
    /\ last.op = "add_original_metadata"
    /\ Len(inp) = 2
    /\ inp[1] = <<"Make", "Zeiss">>
    /\ last.key = "Model"
    /\ has_original_metadata(SA(root), "Model").result
    /\ Len(list_original_metadata(SA(root)).items) = 2

----------------------------------------------------------------------------
(* Python values handed to the attribute setters, and what Element.set     *)
(* keeps.  Numbers are counted in halves: h stands for the number h / 2.   *)

PyInt(n) == [type |-> "int", h |-> 2 * n, s |-> <<>>]
PyFloat(h) == [type |-> "float", h |-> h, s |-> <<>>]
PyStr(s) == [type |-> "str", h |-> 0, s |-> s]

Abs(n) == IF n < 0 THEN 0 - n ELSE n

\* str(x) of a float x = h / 2
FloatToStr(h) ==
    (IF h < 0 THEN <<"-">> ELSE <<>>) \o NatToStr(Abs(h) \div 2)
        \o <<".", IF Abs(h) % 2 = 0 THEN "0" ELSE "5">>

\* str(value)
str(value) ==
    IF value.type = "str" THEN value.s
    ELSE IF value.type = "int" THEN IntToStr(value.h \div 2)
    ELSE FloatToStr(value.h)

\* float(text) on decimal text: digits, optionally signed, optionally
\* followed by ".0" or ".5"; anything else the model passes is rejected
FloatTextParses(s) ==
    \/ IntParses(s)
    \/ /\ Len(s) > 2
       /\ s[Len(s) - 1] = "."
       /\ s[Len(s)] \in {"0", "5"}
       /\ IntParses(SubSeq(s, 1, Len(s) - 2))

FloatTextValue(s) ==
    IF IntParses(s) THEN 2 * StrToInt(s)
    ELSE LET whole == SubSeq(s, 1, Len(s) - 2)
             half == IF s[Len(s)] = "5" THEN 1 ELSE 0
         IN  IF whole[1] = "-" THEN 2 * StrToInt(whole) - half
             ELSE 2 * StrToInt(whole) + half

\* float(value)
float(value) ==
    IF value.type # "str" THEN [out |-> "ok", h |-> value.h]
    ELSE IF FloatTextParses(value.s) THEN [out |-> "ok", h |-> FloatTextValue(value.s)]
    ELSE [out |-> "ValueError", h |-> 0]

\* Element.set(key, value) keeps the object it is given.  An attribute that
\* holds a str is the text itself; one that holds an int or a float object
\* is the type name followed by the text of the number.
Stored(value) == IF value.type = "str" THEN value.s ELSE <<value.type>> \o str(value)

IsStrAttr(a) == a = <<>> \/ a[1] \notin {"int", "float"}

\* the object an attribute holds
Loaded(a) ==
    IF IsStrAttr(a) THEN PyStr(a)
    ELSE IF a[1] = "int" THEN PyInt(StrToInt(Tail(a)))
    ELSE PyFloat(FloatTextValue(Tail(a)))

\* utils.get_float_attr
get_float_attr(node, attribute) ==
    IF ~HasAttr(node, attribute) THEN [out |-> "ok", none |-> TRUE, h |-> 0]
    ELSE LET f == float(Loaded(node.attrs[attribute]))
         IN  [out |-> f.out, none |-> FALSE, h |-> f.h]

\* "if not self.get_XUnit()": the unit attribute is absent or empty
Falsy(node, attribute) == ~HasAttr(node, attribute) \/ node.attrs[attribute] = <<>>

Set(node, attribute, stored) == [node EXCEPT !.attrs = SetAttr(@, attribute, stored)]

S_nm == <<"n", "m">>
S_um == <<"u00B5", "m">>
S_s == <<"s">>
S_mW == <<"m", "W">>
S_MHz == <<"M", "H", "z">>
S_pixel == <<"p", "i", "x", "e", "l">>
S_furlong == <<"f", "u", "r", "l", "o", "n", "g">>
S_abc == <<"a", "b", "c">>

\* the token sets of TypeChecker.UnitsLength, UnitsTime, UnitsPower and
\* UnitsFrequency; u00B5 is the micro sign and u00C5 the angstrom sign
UnitsLengthTokens ==
    {<<"Y", "m">>, <<"Z", "m">>, <<"E", "m">>, <<"P", "m">>, <<"T", "m">>,
     <<"G", "m">>, <<"M", "m">>, <<"k", "m">>, <<"h", "m">>,
     <<"d", "a", "m">>, <<"m">>, <<"d", "m">>, <<"c", "m">>, <<"m", "m">>,
     <<"u00B5", "m">>, <<"n", "m">>, <<"p", "m">>, <<"f", "m">>,
     <<"a", "m">>, <<"z", "m">>, <<"y", "m">>, <<"u00C5">>,
     <<"t", "h", "o", "u">>, <<"l", "i">>, <<"i", "n">>, <<"f", "t">>,
     <<"y", "d">>, <<"m", "i">>, <<"u", "a">>, <<"l", "y">>, <<"p", "c">>,
     <<"p", "t">>, <<"p", "i", "x", "e", "l">>,
     <<"r", "e", "f", "e", "r", "e", "n", "c", "e", " ", "f", "r", "a", "m", "e">>}

UnitsTimeTokens ==
    {<<"Y", "s">>, <<"Z", "s">>, <<"E", "s">>, <<"P", "s">>, <<"T", "s">>,
     <<"G", "s">>, <<"M", "s">>, <<"k", "s">>, <<"h", "s">>,
     <<"d", "a", "s">>, <<"s">>, <<"d", "s">>, <<"c", "s">>, <<"m", "s">>,
     <<"u00B5", "s">>, <<"n", "s">>, <<"p", "s">>, <<"f", "s">>,
     <<"a", "s">>, <<"z", "s">>, <<"y", "s">>, <<"m", "i", "n">>, <<"h">>,
     <<"d">>}

UnitsPowerTokens ==
    {<<"Y", "W">>, <<"Z", "W">>, <<"E", "W">>, <<"P", "W">>, <<"T", "W">>,
     <<"G", "W">>, <<"M", "W">>, <<"k", "W">>, <<"h", "W">>,
     <<"d", "a", "W">>, <<"W">>, <<"d", "W">>, <<"c", "W">>, <<"m", "W">>,
     <<"u00B5", "W">>, <<"n", "W">>, <<"p", "W">>, <<"f", "W">>,
     <<"a", "W">>, <<"z", "W">>, <<"y", "W">>}

UnitsFrequencyTokens ==
    {<<"Y", "H", "z">>, <<"Z", "H", "z">>, <<"E", "H", "z">>,
     <<"P", "H", "z">>, <<"T", "H", "z">>, <<"G", "H", "z">>,
     <<"M", "H", "z">>, <<"k", "H", "z">>, <<"h", "H", "z">>,
     <<"d", "a", "H", "z">>, <<"H", "z">>, <<"d", "H", "z">>,
     <<"c", "H", "z">>, <<"m", "H", "z">>, <<"u00B5", "H", "z">>,
     <<"n", "H", "z">>, <<"p", "H", "z">>, <<"f", "H", "z">>,
     <<"a", "H", "z">>, <<"z", "H", "z">>, <<"y", "H", "z">>}


\* TypeChecker.UnitsLength
UnitsLength(value) == value.type = "str" /\ value.s \in UnitsLengthTokens

----------------------------------------------------------------------------
(* Attribute setters of the entity views *)

\* OMEXML.Pixels.set_TimeIncrement: the value is kept as it is given
set_TimeIncrement(node, value) ==
    LET n1 == Set(node, "TimeIncrement", Stored(value))
    IN  IF Falsy(n1, "TimeIncrementUnit")
        THEN Ret(Set(n1, "TimeIncrementUnit", S_s), "ok")
        ELSE Ret(n1, "ok")

\* OMEXML.Pixels.set_TimeIncrementUnit
set_TimeIncrementUnit(node, value) == Ret(Set(node, "TimeIncrementUnit", str(value)), "ok")

\* OMEXML.Pixels.set_PhysicalSizeXUnit
set_PhysicalSizeXUnit(node, value) == Ret(Set(node, "PhysicalSizeXUnit", str(value)), "ok")

\* OMEXML.LightSourceSettings.set_WavelengthUnit
set_WavelengthUnit(node, value) == Ret(Set(node, "WavelengthUnit", str(value)), "ok")

\* OMEXML.LightSourceSettings.set_Wavelength: only a value below 0.0 raises
set_Wavelength(node, value) ==
    IF float(value).out # "ok" THEN Ret(node, "ValueError")
    ELSE IF float(value).h < 0 THEN Ret(node, "ValueError")
    ELSE LET n1 == Set(node, "Wavelength", Stored(PyFloat(float(value).h)))
         IN  IF Falsy(n1, "WavelengthUnit")
             THEN set_WavelengthUnit(n1, PyStr(S_nm))
             ELSE Ret(n1, "ok")

\* OMEXML.Channel.set_ExcitationWavelengthUnit
set_ExcitationWavelengthUnit(node, value) ==
    Ret(Set(node, "ExcitationWavelengthUnit", str(value)), "ok")

\* OMEXML.Channel.set_ExcitationWavelength
set_ExcitationWavelength(node, value) ==
    IF float(value).out # "ok" THEN Ret(node, "ValueError")
    ELSE IF float(value).h <= 0 THEN Ret(node, "ValueError")
    ELSE LET n1 == Set(node, "ExcitationWavelength", Stored(PyFloat(float(value).h)))
         IN  IF Falsy(n1, "ExcitationWavelengthUnit")
             THEN set_ExcitationWavelengthUnit(n1, PyStr(S_nm))
             ELSE Ret(n1, "ok")

\* OMEXML.Channel.set_PinholeSizeUnit
set_PinholeSizeUnit(node, value) == Ret(Set(node, "PinholeSizeUnit", str(value)), "ok")

\* OMEXML.Channel.set_PinholeSize.  get_PinholeSizeUnit has no return
\* statement, so "not self.get_PinholeSizeUnit()" holds on every call.
set_PinholeSize(node, value) ==
    IF float(value).out # "ok" THEN Ret(node, "ValueError")
    ELSE IF float(value).h <= 0 THEN Ret(node, "ValueError")
    ELSE set_PinholeSizeUnit(Set(node, "PinholeSize", Stored(PyFloat(float(value).h))),
                             PyStr(S_um))

\* Types.LightSource.set_PowerUnit
set_PowerUnit(node, value) == Ret(Set(node, "PowerUnit", str(value)), "ok")

\* Types.LightSource.set_Power: the value is kept as it is given
set_Power(node, value) ==
    LET n1 == Set(node, "Power", Stored(value))
    IN  IF Falsy(n1, "PowerUnit") THEN set_PowerUnit(n1, PyStr(S_mW)) ELSE Ret(n1, "ok")

\* Types.Shape.set_StrokeWidthUnit.  self.type_checker is assigned by
\* Types.__init__ on a Types object only; a Shape has no such attribute.
Shape_type_checker == "AttributeError"

set_StrokeWidthUnit(node, value) ==
    IF Shape_type_checker # "ok" THEN Ret(node, Shape_type_checker)
    ELSE IF UnitsLength(PyStr(str(value))) THEN Ret(Set(node, "StrokeWidthUnit", str(value)), "ok")
    ELSE Ret(node, "ok")

\* whether cls(node) can be built: Channel, LightSource and Shape derive
\* from LSID, the two Settings classes from Reference
LSIDClasses == {"Channel", "LightSourceSettings", "DetectorSettings",
                "LightSource", "Shape"}

Construct(cls) == IF cls \in LSIDClasses THEN LSID_init ELSE "ok"

\* cls(node).setter(value): the view is built, then the setter runs
OnView(cls, node, res) ==
    IF Construct(cls) # "ok" THEN Ret(node, Construct(cls)) ELSE res

Classes == LSIDClasses \cup {"Pixels", "ROI", "ROIRef"}

Magnitudes ==
    {PyInt(n) : n \in {0 - 1, 0, 1, 500}} \cup {PyFloat(h) : h \in {1, 3}}
        \cup {PyStr(S_abc)}

UnitArgs == {PyStr(S_nm), PyStr(S_s), PyStr(S_mW), PyStr(S_MHz), PyStr(S_furlong)}

AttrCall(op, arg, out) == [op |-> op, arg |-> arg, out |-> out]

\* one entity node of some class, no attribute set yet
InitAttr ==
    /\ inp \in {[cls |-> c] : c \in Classes}
    /\ root = Node(inp.cls, NoAttrs, NoText, <<>>)
    /\ last = AttrCall("init", PyInt(0), "ok")
    /\ uuid = 0

\* OMEXML.DetectorSettings.set_ReadOutRateUnit
set_ReadOutRateUnit(node, value) == Ret(Set(node, "ReadOutRateUnit", str(value)), "ok")

\* OMEXML.LightSourceSettings.set_Attenuation: the ValueError is logged and
\* raised again
set_Attenuation(node, value) ==
    IF float(value).out # "ok" THEN Ret(node, "ValueError")
    ELSE IF float(value).h > 2 \/ float(value).h < 0 THEN Ret(node, "ValueError")
    ELSE Ret(Set(node, "Attenuation", Stored(PyFloat(float(value).h))), "ok")

\* OMEXML.Channel.set_NDFilter: the ValueError is logged and swallowed
set_NDFilter(node, value) ==
    IF float(value).out # "ok" THEN Ret(node, "ok")
    ELSE IF float(value).h < 0 \/ float(value).h > 2 THEN Ret(node, "ok")
    ELSE Ret(Set(node, "NDFilter", Stored(PyFloat(float(value).h))), "ok")

\* TypeChecker.PercentFraction.  The module never imports logging, so the
\* except branch ends in NameError.
PercentFraction(value) ==
    IF float(value).out # "ok" THEN [out |-> "NameError", result |-> FALSE]
    ELSE [out |-> "ok", result |-> float(value).h >= 0 /\ float(value).h <= 2]

\* an int of any size, as its decimal text
PyBigInt(text) == [type |-> "int", h |-> 0, s |-> text]

\* a <= b for two digit strings without sign and without leading zeros
DigitsLE(a, b) ==
    \/ Len(a) < Len(b)
    \/ /\ Len(a) = Len(b)
       /\ \/ a = b
          \/ \E i \in 1..Len(a) :
                /\ SubSeq(a, 1, i - 1) = SubSeq(b, 1, i - 1)
                /\ DigitVal(a[i]) < DigitVal(b[i])

\* a <= b for two ints given as decimal text
IntTextLE(a, b) ==
    IF a[1] = "-" /\ b[1] = "-" THEN DigitsLE(Tail(b), Tail(a))
    ELSE IF a[1] = "-" THEN TRUE
    ELSE IF b[1] = "-" THEN FALSE
    ELSE DigitsLE(a, b)

S_Int32Min == <<"-", "2", "1", "4", "7", "4", "8", "3", "6", "4", "8">>
S_Int32Max == <<"2", "1", "4", "7", "4", "8", "3", "6", "4", "7">>

\* isinstance(value, int) and value >= -2147483648 and value <= 2147483647
IsInt32(value) ==
    /\ value.type = "int"
    /\ value.s # <<>>
    /\ IntTextLE(S_Int32Min, value.s)
    /\ IntTextLE(value.s, S_Int32Max)

\* TypeChecker.Color: the branch taken by an int of the range reads the
\* names logging and self, neither of which is bound in the static method;
\* every other value falls through to "return True"
Color(value) ==
    IF IsInt32(value) THEN [out |-> "NameError", result |-> FALSE]
    ELSE [out |-> "ok", result |-> TRUE]

\* Types.Shape.set_FillColor and set_StrokeColor: self.type_checker is
\* read first; self.node.set is then called with the name alone
set_FillColor(node, value) ==
    IF Shape_type_checker # "ok" THEN Ret(node, Shape_type_checker)
    ELSE IF Color(value).out # "ok" THEN Ret(node, Color(value).out)
    ELSE IF Color(value).result THEN Ret(node, "TypeError")
    ELSE Ret(node, "ok")

set_StrokeColor(node, value) ==
    IF Shape_type_checker # "ok" THEN Ret(node, Shape_type_checker)
    ELSE IF Color(value).out # "ok" THEN Ret(node, Color(value).out)
    ELSE IF Color(value).result THEN Ret(node, "TypeError")
    ELSE Ret(node, "ok")

ColorArgs ==
    {PyBigInt(<<"0">>),
     PyBigInt(<<"-", "1", "6", "7", "7", "6", "9", "6", "1">>),
     PyBigInt(S_Int32Max), PyBigInt(S_Int32Min),
     PyBigInt(<<"2", "1", "4", "7", "4", "8", "3", "6", "4", "8">>),
     PyBigInt(<<"-", "2", "1", "4", "7", "4", "8", "3", "6", "4", "9">>),
     PyFloat(3), PyStr(S_abc)}

\* OMEXML.ROI.set_ID and OMEXML.ROIRef.set_ID on the bound node
set_ROI_ID(node, value) == Ret([node EXCEPT !.attrs = ROI_set_ID(@, str(value))], "ok")

\* OMEXML.DetectorSettings.set_Gain and set_Zoom: the value is kept as given
set_Gain(node, value) == Ret(Set(node, "Gain", Stored(value)), "ok")
set_Zoom(node, value) == Ret(Set(node, "Zoom", Stored(value)), "ok")

SetTimeIncrement ==
    \E value \in Magnitudes :
        LET res == OnView("Pixels", root, set_TimeIncrement(root, value))
        IN  /\ inp.cls = "Pixels"
            /\ root' = res.node
            /\ last' = AttrCall("set_TimeIncrement", value, res.out)
            /\ UNCHANGED <<inp, uuid>>

SetTimeIncrementUnit ==
    \E value \in UnitArgs :
        LET res == OnView("Pixels", root, set_TimeIncrementUnit(root, value))
        IN  /\ inp.cls = "Pixels"
            /\ root' = res.node
            /\ last' = AttrCall("set_TimeIncrementUnit", value, res.out)
            /\ UNCHANGED <<inp, uuid>>

SetPhysicalSizeXUnit ==
    \E value \in UnitArgs :
        LET res == OnView("Pixels", root, set_PhysicalSizeXUnit(root, value))
        IN  /\ inp.cls = "Pixels"
            /\ root' = res.node
            /\ last' = AttrCall("set_PhysicalSizeXUnit", value, res.out)
            /\ UNCHANGED <<inp, uuid>>

SetWavelength ==
    \E value \in Magnitudes :
        LET res == OnView("LightSourceSettings", root, set_Wavelength(root, value))
        IN  /\ inp.cls = "LightSourceSettings"
            /\ root' = res.node
            /\ last' = AttrCall("set_Wavelength", value, res.out)
            /\ UNCHANGED <<inp, uuid>>

SetWavelengthUnit ==
    \E value \in UnitArgs :
        LET res == OnView("LightSourceSettings", root, set_WavelengthUnit(root, value))
        IN  /\ inp.cls = "LightSourceSettings"
            /\ root' = res.node
            /\ last' = AttrCall("set_WavelengthUnit", value, res.out)
            /\ UNCHANGED <<inp, uuid>>

SetAttenuation ==
    \E value \in Magnitudes :
        LET res == OnView("LightSourceSettings", root, set_Attenuation(root, value))
        IN  /\ inp.cls = "LightSourceSettings"
            /\ root' = res.node
            /\ last' = AttrCall("set_Attenuation", value, res.out)
            /\ UNCHANGED <<inp, uuid>>

SetExcitationWavelength ==
    \E value \in Magnitudes :
        LET res == OnView("Channel", root, set_ExcitationWavelength(root, value))
        IN  /\ inp.cls = "Channel"
            /\ root' = res.node
            /\ last' = AttrCall("set_ExcitationWavelength", value, res.out)
            /\ UNCHANGED <<inp, uuid>>

SetExcitationWavelengthUnit ==
    \E value \in UnitArgs :
        LET res == OnView("Channel", root, set_ExcitationWavelengthUnit(root, value))
        IN  /\ inp.cls = "Channel"
            /\ root' = res.node
            /\ last' = AttrCall("set_ExcitationWavelengthUnit", value, res.out)
            /\ UNCHANGED <<inp, uuid>>

SetPinholeSize ==
    \E value \in Magnitudes :
        LET res == OnView("Channel", root, set_PinholeSize(root, value))
        IN  /\ inp.cls = "Channel"
            /\ root' = res.node
            /\ last' = AttrCall("set_PinholeSize", value, res.out)
            /\ UNCHANGED <<inp, uuid>>

SetPinholeSizeUnit ==
    \E value \in UnitArgs :
        LET res == OnView("Channel", root, set_PinholeSizeUnit(root, value))
        IN  /\ inp.cls = "Channel"
            /\ root' = res.node
            /\ last' = AttrCall("set_PinholeSizeUnit", value, res.out)
            /\ UNCHANGED <<inp, uuid>>

SetNDFilter ==
    \E value \in Magnitudes :
        LET res == OnView("Channel", root, set_NDFilter(root, value))
        IN  /\ inp.cls = "Channel"
            /\ root' = res.node
            /\ last' = AttrCall("set_NDFilter", value, res.out)
            /\ UNCHANGED <<inp, uuid>>

SetPower ==
    \E value \in Magnitudes :
        LET res == OnView("LightSource", root, set_Power(root, value))
        IN  /\ inp.cls = "LightSource"
            /\ root' = res.node
            /\ last' = AttrCall("set_Power", value, res.out)
            /\ UNCHANGED <<inp, uuid>>

SetPowerUnit ==
    \E value \in UnitArgs :
        LET res == OnView("LightSource", root, set_PowerUnit(root, value))
        IN  /\ inp.cls = "LightSource"
            /\ root' = res.node
            /\ last' = AttrCall("set_PowerUnit", value, res.out)
            /\ UNCHANGED <<inp, uuid>>

SetStrokeWidthUnit ==
    \E value \in UnitArgs :
        LET res == OnView("Shape", root, set_StrokeWidthUnit(root, value))
        IN  /\ inp.cls = "Shape"
            /\ root' = res.node
            /\ last' = AttrCall("set_StrokeWidthUnit", value, res.out)
            /\ UNCHANGED <<inp, uuid>>

SetReadOutRateUnit ==
    \E value \in UnitArgs :
        LET res == OnView("DetectorSettings", root, set_ReadOutRateUnit(root, value))
        IN  /\ inp.cls = "DetectorSettings"
            /\ root' = res.node
            /\ last' = AttrCall("set_ReadOutRateUnit", value, res.out)
            /\ UNCHANGED <<inp, uuid>>

SetGain ==
    \E value \in Magnitudes :
        LET res == OnView("DetectorSettings", root, set_Gain(root, value))
        IN  /\ inp.cls = "DetectorSettings"
            /\ root' = res.node
            /\ last' = AttrCall("set_Gain", value, res.out)
            /\ UNCHANGED <<inp, uuid>>

SetZoom ==
    \E value \in Magnitudes :
        LET res == OnView("DetectorSettings", root, set_Zoom(root, value))
        IN  /\ inp.cls = "DetectorSettings"
            /\ root' = res.node
            /\ last' = AttrCall("set_Zoom", value, res.out)
            /\ UNCHANGED <<inp, uuid>>

SetFillColor ==
    \E value \in ColorArgs :
        LET res == OnView("Shape", root, set_FillColor(root, value))
        IN  /\ inp.cls = "Shape"
            /\ root' = res.node
            /\ last' = AttrCall("set_FillColor", value, res.out)
            /\ UNCHANGED <<inp, uuid>>

SetStrokeColor ==
    \E value \in ColorArgs :
        LET res == OnView("Shape", root, set_StrokeColor(root, value))
        IN  /\ inp.cls = "Shape"
            /\ root' = res.node
            /\ last' = AttrCall("set_StrokeColor", value, res.out)
            /\ UNCHANGED <<inp, uuid>>

\* TypeChecker.Color(value), called on the class: no view is involved
TypeCheckerColor ==
    \E value \in ColorArgs :
        /\ inp.cls = "Shape"
        /\ last' = AttrCall("TypeChecker.Color", value,
                            IF Color(value).out # "ok" THEN Color(value).out
                            ELSE IF Color(value).result THEN "True" ELSE "False")
        /\ UNCHANGED <<root, inp, uuid>>

\* ROI(node).ID = value and ROIRef(node).ID = value: a bare suffix, a
\* prefixed value, or the ID the node has now
ROISetID ==
    \E value \in {PyStr(<<"1">>), PyInt(1), PyStr(S_ROI \o <<"1">>)}
                 \cup {PyStr(root.attrs[k]) : k \in DOMAIN root.attrs \cap {"ID"}} :
        LET res == OnView(inp.cls, root, set_ROI_ID(root, value))
        IN  /\ inp.cls \in {"ROI", "ROIRef"}
            /\ Len(res.node.attrs["ID"]) <= MaxIDLen
            /\ root' = res.node
            /\ last' = AttrCall("set_ID", value, res.out)
            /\ UNCHANGED <<inp, uuid>>

NextAttr ==
    \/ SetTimeIncrement
    \/ SetTimeIncrementUnit
    \/ SetPhysicalSizeXUnit
    \/ SetWavelength
    \/ SetWavelengthUnit
    \/ SetAttenuation
    \/ SetExcitationWavelength
    \/ SetExcitationWavelengthUnit
    \/ SetPinholeSize
    \/ SetPinholeSizeUnit
    \/ SetNDFilter
    \/ SetPower
    \/ SetPowerUnit
    \/ SetStrokeWidthUnit
    \/ SetReadOutRateUnit
    \/ SetGain
    \/ SetZoom
    \/ SetFillColor
    \/ SetStrokeColor
    \/ TypeCheckerColor
    \/ ROISetID

SpecAttr == InitAttr /\ [][NextAttr]_vars

\* the measured attributes: setter |-> attribute, unit attribute, default unit
Measured ==
    [set_Wavelength |-> <<"Wavelength", "WavelengthUnit", S_nm>>,
     set_ExcitationWavelength |->
         <<"ExcitationWavelength", "ExcitationWavelengthUnit", S_nm>>,
     set_PinholeSize |-> <<"PinholeSize", "PinholeSizeUnit", S_um>>,
     set_TimeIncrement |-> <<"TimeIncrement", "TimeIncrementUnit", S_s>>,
     set_Power |-> <<"Power", "PowerUnit", S_mW>>]

\* C13: setting a measured attribute on an entity without the companion
\* unit writes the value and injects the attribute's default unit
\* (Wavelength and ExcitationWavelength nm, PinholeSize micrometre,
\* TimeIncrement s, Power mW); a non-positive magnitude, 0 included, is
\* refused and then neither the value nor the unit is written.
C13_MeasuredSetterDefaultsUnit ==
    [][(last'.op \in DOMAIN Measured) =>
        LET attribute == Measured[last'.op][1]
            unit == Measured[last'.op][2]
            given == float(last'.arg)
        IN  IF given.out = "ok" /\ given.h > 0
            THEN /\ last'.out = "ok"
                 /\ get_float_attr(root', attribute) =
                        [out |-> "ok", none |-> FALSE, h |-> given.h]
                 /\ ~HasAttr(root, unit) =>
                        AttrIs(root', unit, Measured[last'.op][3])
            ELSE root' = root]_vars

\* C14: Attenuation = x (and the NDFilter of a Channel) with x outside
\* [0, 1] is refused and the getter returns what it returned before; with
\* x in [0, 1], bounds included, the set succeeds and the getter returns x.
C14_FractionValidated ==
    [][(last'.op \in {"set_Attenuation", "set_NDFilter"}) =>
        LET attribute == IF last'.op = "set_Attenuation" THEN "Attenuation"
                         ELSE "NDFilter"
            given == float(last'.arg)
        IN  IF given.out = "ok" /\ given.h >= 0 /\ given.h <= 2
            THEN /\ last'.out = "ok"
                 /\ get_float_attr(root', attribute) =
                        [out |-> "ok", none |-> FALSE, h |-> given.h]
            ELSE get_float_attr(root', attribute) = get_float_attr(root, attribute)]_vars

StartsWith(text, prefix) ==
    Len(text) >= Len(prefix) /\ SubSeq(text, 1, Len(prefix)) = prefix

\* C15: the ID setter of ROI and of ROIRef stores "ROI:" + s both when it is
\* passed the bare suffix s and when it is passed "ROI:" + s, so writing
\* the current ID back leaves it unchanged.
C15_ROIPrefixCanonical ==
    [][(last'.op = "set_ID") =>
        LET given == str(last'.arg)
            suffix == IF StartsWith(given, S_ROI)
                      THEN SubSeq(given, Len(S_ROI) + 1, Len(given)) ELSE given
        IN  AttrIs(root', "ID", S_ROI \o suffix)]_vars

\* the unit setters: setter |-> unit attribute, tokens of its family
UnitFamily ==
    [set_WavelengthUnit |-> <<"WavelengthUnit", UnitsLengthTokens>>,
     set_ExcitationWavelengthUnit |-> <<"ExcitationWavelengthUnit", UnitsLengthTokens>>,
     set_PinholeSizeUnit |-> <<"PinholeSizeUnit", UnitsLengthTokens>>,
     set_PhysicalSizeXUnit |-> <<"PhysicalSizeXUnit", UnitsLengthTokens>>,
     set_StrokeWidthUnit |-> <<"StrokeWidthUnit", UnitsLengthTokens>>,
     set_TimeIncrementUnit |-> <<"TimeIncrementUnit", UnitsTimeTokens>>,
     set_PowerUnit |-> <<"PowerUnit", UnitsPowerTokens>>,
     set_ReadOutRateUnit |-> <<"ReadOutRateUnit", UnitsFrequencyTokens>>]

\* C20: a unit setter refuses a token outside the set of its attribute's
\* family and leaves the unit attribute unchanged, so every unit attribute
\* that is present holds a token of its family.
C20_UnitSetterKeepsFamily ==
    [][(last'.op \in DOMAIN UnitFamily) =>
        /\ str(last'.arg) \notin UnitFamily[last'.op][2] => root' = root
        /\ \A op \in DOMAIN UnitFamily :
              HasAttr(root', UnitFamily[op][1]) =>
                  root'.attrs[UnitFamily[op][1]] \in UnitFamily[op][2]]_vars

\* C19: TypeChecker.Color returns True exactly for the ints of
\* -2147483648..2147483647 and False for ints outside and for non-ints;
\* Shape.set_StrokeColor and set_FillColor write exactly the in-range ints
\* and refuse the rest, leaving the attribute unchanged.
C19_ColorIsInt32 ==
    [][/\ (last'.op = "TypeChecker.Color") =>
              last'.out = IF IsInt32(last'.arg) THEN "True" ELSE "False"
       /\ (last'.op \in {"set_FillColor", "set_StrokeColor"}) =>
              LET attribute == IF last'.op = "set_FillColor" THEN "FillColor"
                               ELSE "StrokeColor"
              IN  IF IsInt32(last'.arg)
                  THEN AttrIs(root', attribute, last'.arg.s)
                  ELSE root' = root]_vars

----------------------------------------------------------------------------
(* utils.py: the namespace constants, the default document and the scan   *)
(* of a parsed tree for its namespaces.  Here a tag is the qualified name  *)
(* ElementTree gives it, "{namespace}name" as characters, or the bare name *)
(* of an element that has no namespace.                                    *)

MaxElements == 2         \* children of the root of a parsed input tree

PyNone == <<"None">>

S_ns_date == <<"n", "s", "_", "d", "a", "t", "e">>
S_ns_key == <<"n", "s", "_", "k", "e", "y">>
S_ome == <<"o", "m", "e">>
S_sa == <<"s", "a">>
S_spw == <<"s", "p", "w">>

NS_DATE == <<"2", "0", "1", "6", "-", "0", "6">>

S_NS_BINARY_FILE ==
    <<"h", "t", "t", "p", ":", "/", "/", "w", "w", "w", ".", "o", "p", "e",
      "n", "m", "i", "c", "r", "o", "s", "c", "o", "p", "y", ".", "o", "r",
      "g", "/", "S", "c", "h", "e", "m", "a", "s", "/", "{", "n", "s", "_",
      "d", "a", "t", "e", "}", "/", "o", "m", "e", ".", "x", "s", "d">>

S_NS_DEFAULT ==
    <<"h", "t", "t", "p", ":", "/", "/", "w", "w", "w", ".", "o", "p", "e",
      "n", "m", "i", "c", "r", "o", "s", "c", "o", "p", "y", ".", "o", "r",
      "g", "/", "S", "c", "h", "e", "m", "a", "s", "/", "{", "n", "s", "_",
      "k", "e", "y", "}", "/", "{", "n", "s", "_", "d", "a", "t", "e", "}">>

\* the literal part of NS_RE before the group; "." matches any character
S_NS_RE ==
    <<"h", "t", "t", "p", ":", "/", "/", "w", "w", "w", ".", "o", "p", "e",
      "n", "m", "i", "c", "r", "o", "s", "c", "o", "p", "y", ".", "o", "r",
      "g", "/", "S", "c", "h", "e", "m", "a", "s", "/">>

\* str.format(**kwargs): every {field} of the text is replaced by the
\* argument of that name, and a field nobody passed raises KeyError
RECURSIVE format(_, _)
format(text, kwargs) ==
    IF text = <<>> THEN [out |-> "ok", text |-> <<>>]
    ELSE IF Head(text) = "{"
    THEN LET closes == {i \in 1..Len(text) : text[i] = "}"}
             close == FirstIn(closes)
             name == SubSeq(text, 2, close - 1)
             rest == format(SubSeq(text, close + 1, Len(text)), kwargs)
         IN  IF closes = {} THEN [out |-> "ValueError", text |-> <<>>]
             ELSE IF name \notin DOMAIN kwargs
             THEN [out |-> "KeyError", text |-> <<>>]
             ELSE IF rest.out # "ok" THEN rest
             ELSE [out |-> "ok", text |-> kwargs[name] \o rest.text]
    ELSE LET rest == format(Tail(text), kwargs)
         IN  IF rest.out # "ok" THEN rest
             ELSE [out |-> "ok", text |-> <<Head(text)>> \o rest.text]

Kwargs(name, value) == [k \in {name} |-> value]

NS_BINARY_FILE == format(S_NS_BINARY_FILE, Kwargs(S_ns_date, NS_DATE))

\* utils.py line 17: the template has the fields ns_key and ns_date and
\* only ns_date is passed
NS_DEFAULT == format(S_NS_DEFAULT, Kwargs(S_ns_date, NS_DATE))

\* qn(namespace, tag_name)
qn(namespace, tag_name) == <<"{">> \o namespace \o <<"}">> \o tag_name

\* split_qn: re.match('\{(.*)\}(.*)', qn), both groups greedy, and
\* m.group(1) evaluated whether or not there is a match
split_qn(qname) ==
    LET closes == {i \in 1..Len(qname) : qname[i] = "}"}
    IN  IF Len(qname) > 0 /\ qname[1] = "{" /\ closes # {}
        THEN [out |-> "ok",
              ns |-> SubSeq(qname, 2, LastIn(closes) - 1),
              tag |-> SubSeq(qname, LastIn(closes) + 1, Len(qname))]
        ELSE [out |-> "AttributeError", ns |-> <<>>, tag |-> <<>>]

\* re.match(NS_RE, ns): the literal part, the greedy group ns_key, then a
\* "/" followed by one character of [0-9/-]
NS_RE_match(ns) ==
    LET P == Len(S_NS_RE)
        literal == /\ Len(ns) >= P
                   /\ \A i \in 1..P : S_NS_RE[i] = "." \/ S_NS_RE[i] = ns[i]
        ends == {k \in (P + 1)..(Len(ns) - 1) :
                    /\ ns[k] = "/"
                    /\ IsDigit(ns[k + 1]) \/ ns[k + 1] \in {"/", "-"}}
    IN  IF literal /\ ends # {}
        THEN [matched |-> TRUE, ns_key |-> SubSeq(ns, P + 1, LastIn(ends) - 1)]
        ELSE [matched |-> FALSE, ns_key |-> <<>>]

\* node.iter(): the tags of the node and its descendants, document order
RECURSIVE Iter(_)
Iter(node) ==
    <<node.tag>> \o Flatten([i \in 1..Len(node.kids) |-> Iter(node.kids[i])])

\* the for loop of get_namespaces over the tags still to visit
RECURSIVE get_namespaces_loop(_, _)
get_namespaces_loop(tags, ns_lib) ==
    IF tags = <<>> THEN [out |-> "ok", ns |-> ns_lib]
    ELSE LET q == split_qn(Head(tags))
             match == NS_RE_match(q.ns)
         IN  IF q.out # "ok" THEN [out |-> q.out, ns |-> ns_lib]
             ELSE get_namespaces_loop(Tail(tags),
                      IF match.matched
                      THEN SetAttr(ns_lib, ToLower(match.ns_key), q.ns)
                      ELSE ns_lib)

get_namespaces(node) ==
    get_namespaces_loop(Iter(node), [k \in {S_ome, S_sa, S_spw} |-> PyNone])

NoDocument == Node(<<>>, NoAttrs, NoText, <<>>)

\* OMEXML.__init__ once the text is parsed into dom; document is the tree
\* the views of the new object work on
OMEXML_init(dom, document) ==
    LET scan == get_namespaces(dom)
    IN  IF scan.out # "ok"
        THEN [out |-> scan.out, node |-> NoDocument, ns |-> scan.ns]
        ELSE IF scan.ns[S_ome] = PyNone
        THEN [out |-> "Exception", node |-> NoDocument, ns |-> scan.ns]
        ELSE [out |-> "ok", node |-> document, ns |-> scan.ns]

T_OME == <<"O", "M", "E">>
T_Image == <<"I", "m", "a", "g", "e">>
T_AcquisitionDate == <<"A", "c", "q", "u", "i", "s", "i", "t", "i", "o", "n", "D", "a", "t", "e">>
T_Pixels == <<"P", "i", "x", "e", "l", "s">>
T_Channel == <<"C", "h", "a", "n", "n", "e", "l">>
T_LightPath == <<"L", "i", "g", "h", "t", "P", "a", "t", "h">>
T_StructuredAnnotations ==
    <<"S", "t", "r", "u", "c", "t", "u", "r", "e", "d", "A", "n", "n", "o", "t", "a", "t", "i", "o", "n", "s">>
T_Plate == <<"P", "l", "a", "t", "e">>

Leaf(tag) == Node(tag, NoAttrs, NoText, <<>>)

\* ElementTree.fromstring(default_xml): the elements of default_xml under
\* the namespaces its two xmlns attributes declare
default_dom(xmlns, xmlns_sa) ==
    Node(qn(xmlns, T_OME), NoAttrs, NoText,
         <<Node(qn(xmlns, T_Image), NoAttrs, NoText,
                <<Leaf(qn(xmlns, T_AcquisitionDate)),
                  Node(qn(xmlns, T_Pixels), NoAttrs, NoText,
                       <<Node(qn(xmlns, T_Channel), NoAttrs, NoText,
                              <<Leaf(qn(xmlns, T_LightPath))>>)>>)>>),
           Leaf(qn(xmlns_sa, T_StructuredAnnotations))>>)

\* OMEXML(): utils.py lines 14 to 50 build default_xml, stopping at the
\* first statement that raises; xmlns="{ns_ome_default}" and
\* xmlns="{ns_sa_default}s" are filled by the two inner format calls
OMEXML_default ==
    LET ns_ome_default == format(NS_DEFAULT.text, Kwargs(S_ns_key, S_ome))
        ns_sa_default == format(NS_DEFAULT.text, Kwargs(S_ns_key, S_sa))
    IN  IF NS_BINARY_FILE.out # "ok"
        THEN [out |-> NS_BINARY_FILE.out, node |-> NoDocument, ns |-> PyNone]
        ELSE IF NS_DEFAULT.out # "ok"
        THEN [out |-> NS_DEFAULT.out, node |-> NoDocument, ns |-> PyNone]
        ELSE IF ns_ome_default.out # "ok"
        THEN [out |-> ns_ome_default.out, node |-> NoDocument, ns |-> PyNone]
        ELSE IF ns_sa_default.out # "ok"
        THEN [out |-> ns_sa_default.out, node |-> NoDocument, ns |-> PyNone]
        ELSE OMEXML_init(default_dom(ns_ome_default.text,
                                     ns_sa_default.text \o <<"s">>),
                         default_xml)

\* the namespaces an element of a parsed input may carry ("none": the
\* element has no namespace)
NS_ome_2016 ==
    <<"h", "t", "t", "p", ":", "/", "/", "w", "w", "w", ".", "o", "p", "e",
      "n", "m", "i", "c", "r", "o", "s", "c", "o", "p", "y", ".", "o", "r",
      "g", "/", "S", "c", "h", "e", "m", "a", "s", "/", "o", "m", "e", "/",
      "2", "0", "1", "6", "-", "0", "6">>

NS_OME_2010 ==
    <<"h", "t", "t", "p", ":", "/", "/", "w", "w", "w", ".", "o", "p", "e",
      "n", "m", "i", "c", "r", "o", "s", "c", "o", "p", "y", ".", "o", "r",
      "g", "/", "S", "c", "h", "e", "m", "a", "s", "/", "O", "M", "E", "/",
      "2", "0", "1", "0", "-", "0", "6">>

NS_SA_2016 ==
    <<"h", "t", "t", "p", ":", "/", "/", "w", "w", "w", ".", "o", "p", "e",
      "n", "m", "i", "c", "r", "o", "s", "c", "o", "p", "y", ".", "o", "r",
      "g", "/", "S", "c", "h", "e", "m", "a", "s", "/", "S", "A", "/", "2",
      "0", "1", "6", "-", "0", "6">>

NS_SPW_2016 ==
    <<"h", "t", "t", "p", ":", "/", "/", "w", "w", "w", ".", "o", "p", "e",
      "n", "m", "i", "c", "r", "o", "s", "c", "o", "p", "y", ".", "o", "r",
      "g", "/", "S", "c", "h", "e", "m", "a", "s", "/", "S", "P", "W", "/",
      "2", "0", "1", "6", "-", "0", "6">>

NS_ROI_2016 ==
    <<"h", "t", "t", "p", ":", "/", "/", "w", "w", "w", ".", "o", "p", "e",
      "n", "m", "i", "c", "r", "o", "s", "c", "o", "p", "y", ".", "o", "r",
      "g", "/", "S", "c", "h", "e", "m", "a", "s", "/", "R", "O", "I", "/",
      "2", "0", "1", "6", "-", "0", "6">>

NS_undated ==
    <<"h", "t", "t", "p", ":", "/", "/", "w", "w", "w", ".", "o", "p", "e",
      "n", "m", "i", "c", "r", "o", "s", "c", "o", "p", "y", ".", "o", "r",
      "g", "/", "S", "c", "h", "e", "m", "a", "s", "/", "o", "m", "e">>

NS_foreign ==
    <<"h", "t", "t", "p", ":", "/", "/", "w", "w", "w", ".", "w", "3", ".",
      "o", "r", "g", "/", "1", "9", "9", "9", "/", "x", "h", "t", "m", "l">>

Namespaces ==
    {"ome/2016-06", "OME/2010-06", "SA/2016-06", "SPW/2016-06", "ROI/2016-06",
     "ome", "xhtml", "none"}

NamespaceURI(n) ==
    CASE n = "ome/2016-06" -> NS_ome_2016
      [] n = "OME/2010-06" -> NS_OME_2010
      [] n = "SA/2016-06" -> NS_SA_2016
      [] n = "SPW/2016-06" -> NS_SPW_2016
      [] n = "ROI/2016-06" -> NS_ROI_2016
      [] n = "ome" -> NS_undated
      [] n = "xhtml" -> NS_foreign
      [] OTHER -> <<>>

\* the tag of an element called name in namespace n
TagOf(n, name) == IF n = "none" THEN name ELSE qn(NamespaceURI(n), name)

\* the parsed tree of an input: a root and its children
InputDom(in) ==
    Node(TagOf(in.root, T_OME), NoAttrs, NoText,
         [i \in 1..Len(in.kids) |-> Leaf(TagOf(in.kids[i], T_Plate))])

RECURSIVE SeqsUpTo(_, _)
SeqsUpTo(S, n) ==
    IF n = 0 THEN {<<>>}
    ELSE SeqsUpTo(S, n - 1) \cup
         {Append(s, x) : s \in {t \in SeqsUpTo(S, n - 1) : Len(t) = n - 1}, x \in S}

DocCall(op, xml, out, ns) == [op |-> op, xml |-> xml, out |-> out, ns |-> ns]

InitDoc ==
    /\ inp \in [root : Namespaces, kids : SeqsUpTo(Namespaces, MaxElements)]
    /\ root = NoDocument
    /\ last = DocCall("init", "", "ok", PyNone)
    /\ uuid = 0

\* OMEXML()
ConstructDefault ==
    LET res == OMEXML_default
    IN  /\ root' = res.node
        /\ last' = DocCall("OMEXML", "default", res.out, res.ns)
        /\ UNCHANGED <<inp, uuid>>

\* OMEXML(xml) for the text of the input tree
ConstructGiven ==
    LET res == OMEXML_init(InputDom(inp), InputDom(inp))
    IN  /\ root' = res.node
        /\ last' = DocCall("OMEXML", "given", res.out, res.ns)
        /\ UNCHANGED <<inp, uuid>>

NextDoc == ConstructDefault \/ ConstructGiven

SpecDoc == InitDoc /\ [][NextDoc]_vars

\* C17: OMEXML() succeeds and gives a document of one image named
\* "default.png" whose Pixels are 512 x 512 x 1 x 1 x 1 of type uint8 with
\* one channel, and the 'ome' and 'sa' namespaces of it are resolved.
C17_DefaultDocument ==
    (last.op = "OMEXML" /\ last.xml = "default") =>
        /\ last.out = "ok"
        /\ get_image_count(root) = 1
        /\ AttrIs(Image0(root), "Name", S_default_png)
        /\ AttrIs(Pixels0(root), "SizeX", <<"5", "1", "2">>)
        /\ AttrIs(Pixels0(root), "SizeY", <<"5", "1", "2">>)
        /\ AttrIs(Pixels0(root), "SizeZ", <<"1">>)
        /\ AttrIs(Pixels0(root), "SizeC", <<"1">>)
        /\ AttrIs(Pixels0(root), "SizeT", <<"1">>)
        /\ AttrIs(Pixels0(root), "Type", S_uint8)
        /\ get_channel_count(root) = 1
        /\ last.ns[S_ome] # PyNone
        /\ last.ns[S_sa] # PyNone

\* the namespaces of the elements of the input
InputNamespaces == {inp.root} \cup {inp.kids[i] : i \in 1..Len(inp.kids)}

\* the input has an element whose namespace is of the schema named key
Carries(key) ==
    CASE key = "ome" -> InputNamespaces \cap {"ome/2016-06", "OME/2010-06"} # {}
      [] key = "sa" -> "SA/2016-06" \in InputNamespaces
      [] key = "spw" -> "SPW/2016-06" \in InputNamespaces

\* C18: OMEXML(xml) raises and leaves no document when no element of the
\* parsed tree has a namespace of the 'ome' schema pattern; a constructed
\* document has a non-null 'ome' entry; the 'sa' and 'spw' entries are
\* null unless an element of that namespace is in the tree; an element
\* without a namespace does not make the scan raise.
C18_PrimaryNamespaceRequired ==
    (last.op = "OMEXML" /\ last.xml = "given") =>
        /\ ~Carries("ome") => (last.out # "ok" /\ root = NoDocument)
        /\ last.out = "ok" => last.ns[S_ome] # PyNone
        /\ (last.out = "ok" /\ ~Carries("sa")) => last.ns[S_sa] = PyNone
        /\ (last.out = "ok" /\ ~Carries("spw")) => last.ns[S_spw] = PyNone
        /\ last.out # "AttributeError"

----------------------------------------------------------------------------
(* OMEXML.__str__ / to_xml, and the way back through OMEXML(xml).  The    *)
(* text is the sequence of its markup: start tags with their attributes,   *)
(* character data, end tags.                                               *)

StartTag(node) == [markup |-> "start", tag |-> node.tag, attrs |-> node.attrs]
CharData(text) == [markup |-> "data", text |-> text]
EndTag(node) == [markup |-> "end", tag |-> node.tag]

\* ElementTree.write, method "xml": the text of an element is written only
\* when it is not empty
RECURSIVE serialize_xml(_)
serialize_xml(node) ==
    <<StartTag(node)>>
        \o (IF node.text # <<>> /\ node.text # <<"">>
            THEN <<CharData(node.text[1])>> ELSE <<>>)
        \o Flatten([i \in 1..Len(node.kids) |-> serialize_xml(node.kids[i])])
        \o <<EndTag(node)>>

\* the writer escapes every attribute value, and raises TypeError ("cannot
\* serialize") for a value that is not a str
RECURSIVE Serializable(_)
Serializable(node) ==
    /\ \A k \in DOMAIN node.attrs : IsStrAttr(node.attrs[k])
    /\ \A i \in 1..Len(node.kids) : Serializable(node.kids[i])

\* OMEXML.to_xml: str(self), the namespaces registered and the tree written
to_xml(r) ==
    IF Serializable(r) THEN [out |-> "ok", xml |-> serialize_xml(r)]
    ELSE [out |-> "TypeError", xml |-> <<>>]

\* ElementTree.fromstring: stack holds the elements that are still open
RECURSIVE fromstring_loop(_, _)
fromstring_loop(xml, stack) ==
    IF xml = <<>> THEN stack
    ELSE LET m == Head(xml)
             top == Len(stack)
         IN  IF m.markup = "start"
             THEN fromstring_loop(Tail(xml),
                      Append(stack, Node(m.tag, m.attrs, NoText, <<>>)))
             ELSE IF m.markup = "data"
             THEN fromstring_loop(Tail(xml),
                      [stack EXCEPT ![top].text = <<m.text>>])
             ELSE IF top = 1 THEN stack
             ELSE fromstring_loop(Tail(xml),
                      [SubSeq(stack, 1, top - 1) EXCEPT
                          ![top - 1].kids = Append(@, stack[top])])

fromstring(xml) == fromstring_loop(xml, <<>>)[1]

\* OMEXML(xml) on the text to_xml gave: the elements keep the namespaces
\* they were written with, so the 'ome' entry is resolved again
OMEXML_parse(text) ==
    IF text.out # "ok" THEN [out |-> text.out, node |-> NoDocument]
    ELSE [out |-> "ok", node |-> fromstring(text.xml)]

XmlCall(op, out, doc) == [op |-> op, out |-> out, doc |-> doc]

InitXml ==
    /\ root = default_xml
    /\ last = XmlCall("init", "ok", NoDocument)
    /\ inp \in {[family |-> f] : f \in Families}
    /\ uuid = 0

XmlSetImageCount ==
    \E value \in CountArgs :
        LET res == set_image_count(root, value)
        IN  /\ inp.family = "root"
            /\ get_image_count(res.node) <= MaxImages
            /\ root' = res.node
            /\ last' = XmlCall("set_image_count", res.out, NoDocument)
            /\ UNCHANGED <<inp, uuid>>

XmlNewPlate ==
    /\ inp.family = "root"
    /\ plates_len(root) < MaxPlates
    /\ root' = newPlate(root, S_plate, newPlate_plate_id)
    /\ last' = XmlCall("newPlate", "ok", NoDocument)
    /\ UNCHANGED <<inp, uuid>>

XmlSetChannelCount ==
    \E value \in CountArgs :
        LET res == set_channel_count(Pixels0(root), value)
        IN  /\ inp.family = "pixels"
            /\ Count(res.node.kids, "Channel") <= MaxChannels
            /\ root' = WithPixels0(root, res.node)
            /\ last' = XmlCall("set_channel_count", res.out, NoDocument)
            /\ UNCHANGED <<inp, uuid>>

XmlSetTimeIncrement ==
    \E value \in Magnitudes :
        LET res == OnView("Pixels", Pixels0(root), set_TimeIncrement(Pixels0(root), value))
        IN  /\ inp.family = "pixels"
            /\ root' = WithPixels0(root, res.node)
            /\ last' = XmlCall("set_TimeIncrement", res.out, NoDocument)
            /\ UNCHANGED <<inp, uuid>>

XmlSetPhysicalSizeXUnit ==
    \E value \in UnitArgs :
        LET res == OnView("Pixels", Pixels0(root),
                          set_PhysicalSizeXUnit(Pixels0(root), value))
        IN  /\ inp.family = "pixels"
            /\ root' = WithPixels0(root, res.node)
            /\ last' = XmlCall("set_PhysicalSizeXUnit", res.out, NoDocument)
            /\ UNCHANGED <<inp, uuid>>

XmlAddOriginalMetadata ==
    \E key \in Keys, value \in Values :
        /\ inp.family = "annotations"
        /\ Len(Annotations(root)) < MaxAnnotations
        /\ root' = WithSA(root, add_original_metadata(SA(root), key, value, uuid))
        /\ uuid' = uuid + 1
        /\ last' = XmlCall("add_original_metadata", "ok", NoDocument)
        /\ UNCHANGED inp

\* OMEXML(d.to_xml())
ToXml ==
    LET res == OMEXML_parse(to_xml(root))
    IN  /\ last' = XmlCall("to_xml", res.out, res.node)
        /\ UNCHANGED <<root, inp, uuid>>

NextXml ==
    \/ XmlSetImageCount
    \/ XmlNewPlate
    \/ XmlSetChannelCount
    \/ XmlSetTimeIncrement
    \/ XmlSetPhysicalSizeXUnit
    \/ XmlAddOriginalMetadata
    \/ ToXml

SpecXml == InitXml /\ [][NextXml]_vars

\* channel_count of every image, -1 for an image without Pixels
ChannelCounts(r) ==
    [i \in 1..Len(ImagesOf(r)) |->
        IF Count(ImagesOf(r)[i].kids, "Pixels") = 0 THEN 0 - 1
        ELSE Len(ChannelsOf(Children(ImagesOf(r)[i], "Pixels")[1]))]

\* C16: for a document d made from the default document by mutators,
\* to_xml(d) succeeds and OMEXML(to_xml(d)) has the image_count of d, the
\* channel_count of d for every image and the value of d from every
\* attribute getter exercised (TimeIncrement, PhysicalSizeXUnit).
C16_RoundTrip ==
    last.op = "to_xml" =>
        /\ last.out = "ok"
        /\ get_image_count(last.doc) = get_image_count(root)
        /\ ChannelCounts(last.doc) = ChannelCounts(root)
        /\ get_float_attr(Pixels0(last.doc), "TimeIncrement")
               = get_float_attr(Pixels0(root), "TimeIncrement")
        /\ \A k \in {"TimeIncrementUnit", "PhysicalSizeXUnit"} :
               /\ HasAttr(Pixels0(last.doc), k) <=> HasAttr(Pixels0(root), k)
               /\ HasAttr(Pixels0(root), k) =>
                      Pixels0(last.doc).attrs[k] = Pixels0(root).attrs[k]

----------------------------------------------------------------------------
(* Reference setters: Image.set_InstrumentRef and its siblings, and       *)
(* WellSample.set_ImageRef                                                 *)

MaxRefIndex == 1         \* reference IDs are Kind:0 .. Kind:MaxRefIndex

S_K_Experimenter == <<"E", "x", "p", "e", "r", "i", "m", "e", "n", "t", "e", "r">>
S_K_Experiment == <<"E", "x", "p", "e", "r", "i", "m", "e", "n", "t">>
S_K_ExperimenterGroup == S_K_Experimenter \o <<"G", "r", "o", "u", "p">>

\* the reference children of an Image and the restriction each setter
\* passes, and the one of a WellSample
ImageRefTags == {"InstrumentRef", "ExperimenterRef", "ExperimentRef",
                 "ExperimenterGroupRef"}

RefKind(tag) ==
    CASE tag = "InstrumentRef" -> S_K_Instrument
      [] tag = "ExperimenterRef" -> S_K_Experimenter
      [] tag = "ExperimentRef" -> S_K_Experiment
      [] tag = "ExperimenterGroupRef" -> S_K_ExperimenterGroup
      [] tag = "ImageRef" -> S_K_Image

RefID(kind, n) == kind \o <<":">> \o NatToStr(n)

ReferenceIDs ==
    {RefID(k, n) : k \in {S_K_Instrument, S_K_Experimenter, S_K_Experiment,
                          S_K_ExperimenterGroup, S_K_Image},
                   n \in 0..MaxRefIndex}

\* the body of Image.set_InstrumentRef / set_ExperimenterRef /
\* set_ExperimentRef / set_ExperimenterGroupRef on a built view:
\* self.Reference is looked up on the Image object, which has no such
\* attribute, before anything is found, created or written
Image_set_Reference(node, tag, ID) == Ret(node, "AttributeError")

\* OMEXML.Image(node).<tag> = ID: the view is built, then the setter runs
new_Image_set_Reference(node, tag, ID) ==
    IF LSID_init # "ok" THEN Ret(node, LSID_init)
    ELSE Image_set_Reference(node, tag, ID)

\* OMEXML.WellSample.set_ImageRef
set_ImageRef(node, value) ==
    LET made == IF Count(node.kids, "ImageRef") = 0
                THEN SubElement(node, "ImageRef") ELSE node
        ref == FindAll(made.kids, "ImageRef")[1]
    IN  Ret([made EXCEPT !.kids[ref] = Set(@, "ID", value)], "ok")

\* the IDs of the reference children of that tag, in document order
RefIDs(node, tag) ==
    [i \in 1..Count(node.kids, tag) |->
        IF HasAttr(Children(node, tag)[i], "ID")
        THEN <<Children(node, tag)[i].attrs["ID"]>> ELSE <<>>]

RefCall(op, tag, arg, pre, out) ==
    [op |-> op, tag |-> tag, arg |-> arg, pre |-> pre, out |-> out]

\* an Image or a WellSample node that has no reference child of inp.tag,
\* or has one whose ID is of the referenced kind
InitRef ==
    /\ inp \in {[cls |-> "Image", tag |-> t, had |-> h] :
                   t \in ImageRefTags, h \in BOOLEAN}
               \cup {[cls |-> "WellSample", tag |-> "ImageRef", had |-> h] :
                        h \in BOOLEAN}
    /\ root = Node(inp.cls, NoAttrs, NoText,
                   IF inp.had
                   THEN <<Node(inp.tag,
                               SetAttr(NoAttrs, "ID", RefID(RefKind(inp.tag), 0)),
                               NoText, <<>>)>>
                   ELSE <<>>)
    /\ last = RefCall("init", inp.tag, <<>>, <<>>, "ok")
    /\ uuid = 0

SetInstrumentRef ==
    \E ID \in ReferenceIDs :
        LET res == new_Image_set_Reference(root, "InstrumentRef", ID)
        IN  /\ inp.cls = "Image" /\ inp.tag = "InstrumentRef"
            /\ root' = res.node
            /\ last' = RefCall("set_InstrumentRef", "InstrumentRef", ID,
                               RefIDs(root, "InstrumentRef"), res.out)
            /\ UNCHANGED <<inp, uuid>>

SetExperimenterRef ==
    \E ID \in ReferenceIDs :
        LET res == new_Image_set_Reference(root, "ExperimenterRef", ID)
        IN  /\ inp.cls = "Image" /\ inp.tag = "ExperimenterRef"
            /\ root' = res.node
            /\ last' = RefCall("set_ExperimenterRef", "ExperimenterRef", ID,
                               RefIDs(root, "ExperimenterRef"), res.out)
            /\ UNCHANGED <<inp, uuid>>

SetExperimentRef ==
    \E ID \in ReferenceIDs :
        LET res == new_Image_set_Reference(root, "ExperimentRef", ID)
        IN  /\ inp.cls = "Image" /\ inp.tag = "ExperimentRef"
            /\ root' = res.node
            /\ last' = RefCall("set_ExperimentRef", "ExperimentRef", ID,
                               RefIDs(root, "ExperimentRef"), res.out)
            /\ UNCHANGED <<inp, uuid>>

SetExperimenterGroupRef ==
    \E ID \in ReferenceIDs :
        LET res == new_Image_set_Reference(root, "ExperimenterGroupRef", ID)
        IN  /\ inp.cls = "Image" /\ inp.tag = "ExperimenterGroupRef"
            /\ root' = res.node
            /\ last' = RefCall("set_ExperimenterGroupRef", "ExperimenterGroupRef", ID,
                               RefIDs(root, "ExperimenterGroupRef"), res.out)
            /\ UNCHANGED <<inp, uuid>>

SetImageRef ==
    \E value \in ReferenceIDs :
        LET res == set_ImageRef(root, value)
        IN  /\ inp.cls = "WellSample"
            /\ root' = res.node
            /\ last' = RefCall("set_ImageRef", "ImageRef", value,
                               RefIDs(root, "ImageRef"), res.out)
            /\ UNCHANGED <<inp, uuid>>

NextRef ==
    \/ SetInstrumentRef
    \/ SetExperimenterRef
    \/ SetExperimentRef
    \/ SetExperimenterGroupRef
    \/ SetImageRef

SpecRef == InitRef /\ [][NextRef]_vars

\* C21: a reference setter given an ID of the referenced kind ends with
\* exactly one reference child of its tag, holding that ID, whether or not
\* there was one before; given an ID of another kind it leaves the
\* reference children as they were.
C21_ReferenceUpsert ==
    last.op # "init" =>
        IF StartsWith(last.arg, RefKind(last.tag) \o <<":">>)
        THEN last.out = "ok" /\ RefIDs(root, last.tag) = <<<<last.arg>>>>
        ELSE RefIDs(root, last.tag) = last.pre

----------------------------------------------------------------------------
(* Read paths: the indexed accessors, StructuredAnnotations[key] and      *)
(* Well.get_Color                                                          *)

MaxReadIndex == 3        \* indexes read: -MaxReadIndex..MaxReadIndex

\* list[index] of a Python list of n items: at is the place of the item
\* taken, counted from 1
PyIndex(n, index) ==
    IF (0 - n) <= index /\ index < n
    THEN [out |-> "ok", at |-> IF index >= 0 THEN index + 1 ELSE n + index + 1]
    ELSE [out |-> "IndexError", at |-> 0]

\* a view of an LSID class built on the item a list index took
Viewed(item) ==
    IF item.out = "ok" /\ LSID_init # "ok" THEN [out |-> LSID_init, at |-> 0]
    ELSE item

\* OMEXML.image(index)
image(r, index) == Viewed(PyIndex(get_image_count(r), index))

\* OMEXML.roi(index)
roi(r, index) == PyIndex(get_roi_count(r), index)

\* OMEXML.Pixels.Channel(index)
Pixels_Channel(px, index) == Viewed(PyIndex(Count(px.kids, "Channel"), index))

\* OMEXML.Pixels.Plane(index)
Pixels_Plane(px, index) == PyIndex(Count(px.kids, "Plane"), index)

\* OMEXML.image().roiref(index): the Image view comes first
Image_roiref(r, index) ==
    IF image(r, 0).out # "ok" THEN [out |-> image(r, 0).out, at |-> 0]
    ELSE PyIndex(get_roiref_count(r), index)

\* PlatesDucktype.__getitem__ with an int key
PlatesDucktype_getitem(r, key) == PyIndex(plates_len(r), key)

\* StructuredAnnotations.__getitem__
StructuredAnnotations_getitem(sa, key) ==
    LET hits == {i \in 1..Len(sa.kids) : AttrIs(sa.kids[i], "ID", key)}
    IN  IF hits # {} THEN [out |-> "ok", at |-> FirstIn(hits)]
        ELSE [out |-> "IndexError", at |-> 0]

\* Well.get_Color: int(self.node.get("Color"))
Well_get_Color(well) ==
    IF ~HasAttr(well, "Color") THEN [out |-> "TypeError", at |-> 0]
    ELSE IF IntParses(well.attrs["Color"]) THEN [out |-> "ok", at |-> 1]
    ELSE [out |-> "ValueError", at |-> 0]

\* Well.set_Color
Well_set_Color(well, value) == Set(well, "Color", str(value))

ReadIndexes == (0 - MaxReadIndex)..MaxReadIndex

AnnotationKeys == {uuid4(0), uuid4(1)}

RECURSIVE WithWells(_, _)
WithWells(plate, n) ==
    IF n = 0 THEN plate
    ELSE WellsDucktype_new(WithWells(plate, n - 1), 0, n - 1, new_well_id)

\* a document that was given rois ROIs and as many ROI references, planes
\* planes, one annotation and one plate of wells wells, the first of them
\* coloured when color is set
ReadDocument(in) ==
    LET r1 == roi_grow(default_xml, in.rois)
        img == [Image0(r1) EXCEPT !.kids =
                   @ \o [i \in 1..in.rois |->
                           Node("ROIRef", ROI_set_ID(NoAttrs, IntToStr(i - 1)),
                                NoText, <<>>)]]
        r2 == WithImage0(r1, img)
        r3 == WithPixels0(r2, AddKids(Pixels0(r2), "Plane", in.planes))
        r4 == WithSA(r3, add_original_metadata(SA(r3), "Make", "Zeiss", 0))
        r5 == newPlate(r4, S_plate, newPlate_plate_id)
        plate == WithWells(Plate(r5, 1), in.wells)
        wells == FindAll(plate.kids, "Well")
        coloured == IF in.color /\ in.wells > 0
                    THEN [plate EXCEPT !.kids[wells[1]] = Well_set_Color(@, PyInt(255))]
                    ELSE plate
    IN  [r5 EXCEPT !.kids[PlatePos(r5, 1)] = coloured]

\* what was read: the accessor, its index (or 0), the count of the
\* collection, how the call ended and the place of the item returned
ReadCall(op, index, count, out, at) ==
    [op |-> op, index |-> index, count |-> count, out |-> out, at |-> at]

InitRead ==
    /\ inp \in [rois : 0..MaxROIs, planes : 0..MaxPlanes, wells : 0..MaxWells,
                color : BOOLEAN]
    /\ root = ReadDocument(inp)
    /\ last = ReadCall("init", 0, 0, "ok", 0)
    /\ uuid = 1

ReadImage ==
    \E index \in ReadIndexes :
        /\ last' = ReadCall("image", index, get_image_count(root),
                            image(root, index).out, image(root, index).at)
        /\ UNCHANGED <<root, inp, uuid>>

ReadRoi ==
    \E index \in ReadIndexes :
        /\ last' = ReadCall("roi", index, get_roi_count(root),
                            roi(root, index).out, roi(root, index).at)
        /\ UNCHANGED <<root, inp, uuid>>

ReadChannel ==
    \E index \in ReadIndexes :
        LET res == Pixels_Channel(Pixels0(root), index)
        IN  /\ last' = ReadCall("Channel", index, get_channel_count(root),
                                res.out, res.at)
            /\ UNCHANGED <<root, inp, uuid>>

ReadPlane ==
    \E index \in ReadIndexes :
        LET res == Pixels_Plane(Pixels0(root), index)
        IN  /\ last' = ReadCall("Plane", index, get_plane_count(root),
                                res.out, res.at)
            /\ UNCHANGED <<root, inp, uuid>>

ReadRoiref ==
    \E index \in ReadIndexes :
        LET res == Image_roiref(root, index)
        IN  /\ last' = ReadCall("roiref", index, get_roiref_count(root),
                                res.out, res.at)
            /\ UNCHANGED <<root, inp, uuid>>

ReadPlate ==
    \E index \in ReadIndexes :
        LET res == PlatesDucktype_getitem(root, index)
        IN  /\ last' = ReadCall("plates", index, plates_len(root), res.out, res.at)
            /\ UNCHANGED <<root, inp, uuid>>

ReadWell ==
    \E index \in ReadIndexes :
        LET res == WellsDucktype_getitem(Plate(root, 1), IntKey(index))
        IN  /\ last' = ReadCall("Well", index, wells_len(Plate(root, 1)),
                                res.out, res.well)
            /\ UNCHANGED <<root, inp, uuid>>

\* index is 1 when the key is the ID of an annotation, else 0
ReadAnnotation ==
    \E key \in AnnotationKeys :
        LET res == StructuredAnnotations_getitem(SA(root), key)
        IN  /\ last' = ReadCall("StructuredAnnotations",
                                IF key = uuid4(0) THEN 1 ELSE 0,
                                Len(SA(root).kids), res.out, res.at)
            /\ UNCHANGED <<root, inp, uuid>>

\* index is the well asked, count is 1 when it has the attribute, else 0
ReadWellColor ==
    \E w \in 1..wells_len(Plate(root, 1)) :
        LET well == all_wells(Plate(root, 1))[w]
            res == Well_get_Color(well)
        IN  /\ last' = ReadCall("get_Color", w,
                                IF HasAttr(well, "Color") THEN 1 ELSE 0,
                                res.out, res.at)
            /\ UNCHANGED <<root, inp, uuid>>

NextRead ==
    \/ ReadImage
    \/ ReadRoi
    \/ ReadChannel
    \/ ReadPlane
    \/ ReadRoiref
    \/ ReadPlate
    \/ ReadWell
    \/ ReadAnnotation
    \/ ReadWellColor

SpecRead == InitRead /\ [][NextRead]_vars

IndexedReads == {"image", "roi", "Channel", "Plane", "roiref", "plates", "Well"}

\* C22: an indexed accessor asked for an index outside 0..count-1 returns
\* None and does not raise; StructuredAnnotations[key] for a key that is
\* no child's ID returns None; Well.get_Color returns None for a well that
\* has no Color attribute.
C22_MissingReadsAsNone ==
    /\ (last.op \in IndexedReads /\ ~(0 <= last.index /\ last.index < last.count))
           => (last.out = "ok" /\ last.at = 0)
    /\ (last.op = "StructuredAnnotations" /\ last.index = 0)
           => (last.out = "ok" /\ last.at = 0)
    /\ (last.op = "get_Color" /\ last.count = 0)
           => (last.out = "ok" /\ last.at = 0)

----------------------------------------------------------------------------
(* The collections of a Pixels element under their count setters, with    *)
(* attributes on the nodes so that a node can be told from a new one       *)

MaxMark == 1             \* TheZ and FirstZ are given values 0..MaxMark

\* OMEXML.Plane.set_TheZ
set_TheZ(node, value) == Set(node, "TheZ", str(value))

\* OMEXML.TiffData.set_FirstZ
set_FirstZ(node, value) == Set(node, "FirstZ", str(value))

FrameTags == {"Channel", "Plane", "TiffData"}

FrameTag(op) ==
    CASE op = "set_channel_count" -> "Channel"
      [] op = "set_plane_count" -> "Plane"
      [] op = "set_tiffdata_count" -> "TiffData"

\* the i-th Channel of a parsed document, with a Name
NamedChannel(i) ==
    Node("Channel",
         SetAttr(SetAttr(NoAttrs, "ID", S_Channel00), "Name", <<"c">> \o NatToStr(i)),
         NoText, <<>>)

\* what the last call was: the setter, its argument, the nodes of the
\* collection before the call, and how the call ended
FrameCall(op, arg, pre, out) == [op |-> op, arg |-> arg, pre |-> pre, out |-> out]

\* a Pixels element with the channels, or the planes, or the TiffData
\* blocks of a document; a run exercises the one collection
InitFrame ==
    /\ inp \in [tag : FrameTags, count : 1..2]
    /\ root = Node("Pixels", DefaultPixelsAttrs, NoText,
                   [i \in 1..inp.count |->
                       IF inp.tag = "Channel" THEN NamedChannel(i)
                       ELSE Node(inp.tag, NoAttrs, NoText, <<>>)])
    /\ last = FrameCall("init", 0, <<>>, "ok")
    /\ uuid = 0

\* Pixels.Plane(index).TheZ = value
SetTheZ ==
    \E i \in 1..Count(root.kids, "Plane"), value \in 0..MaxMark :
        /\ inp.tag = "Plane"
        /\ root' = [root EXCEPT !.kids[FindAll(root.kids, "Plane")[i]] =
                        set_TheZ(@, PyInt(value))]
        /\ last' = FrameCall("set_TheZ", value, Children(root, "Plane"), "ok")
        /\ UNCHANGED <<inp, uuid>>

\* OMEXML.TiffData(node).FirstZ = value
SetFirstZ ==
    \E i \in 1..Count(root.kids, "TiffData"), value \in 0..MaxMark :
        /\ inp.tag = "TiffData"
        /\ root' = [root EXCEPT !.kids[FindAll(root.kids, "TiffData")[i]] =
                        set_FirstZ(@, PyInt(value))]
        /\ last' = FrameCall("set_FirstZ", value, Children(root, "TiffData"), "ok")
        /\ UNCHANGED <<inp, uuid>>

FrameSetChannelCount ==
    \E value \in CountArgs :
        LET res == set_channel_count(root, value)
        IN  /\ inp.tag = "Channel"
            /\ Count(res.node.kids, "Channel") <= MaxChannels
            /\ root' = res.node
            /\ last' = FrameCall("set_channel_count", value,
                                 Children(root, "Channel"), res.out)
            /\ UNCHANGED <<inp, uuid>>

FrameSetPlaneCount ==
    \E value \in CountArgs :
        LET res == set_plane_count(root, value)
        IN  /\ inp.tag = "Plane"
            /\ Count(res.node.kids, "Plane") <= MaxPlanes
            /\ root' = res.node
            /\ last' = FrameCall("set_plane_count", value,
                                 Children(root, "Plane"), res.out)
            /\ UNCHANGED <<inp, uuid>>

FrameSetTiffdataCount ==
    \E value \in CountArgs :
        LET res == set_tiffdata_count(root, value)
        IN  /\ inp.tag = "TiffData"
            /\ Count(res.node.kids, "TiffData") <= MaxTiffData
            /\ root' = res.node
            /\ last' = FrameCall("set_tiffdata_count", value,
                                 Children(root, "TiffData"), res.out)
            /\ UNCHANGED <<inp, uuid>>

NextFrame ==
    \/ SetTheZ
    \/ SetFirstZ
    \/ FrameSetChannelCount
    \/ FrameSetPlaneCount
    \/ FrameSetTiffdataCount

SpecFrame == InitFrame /\ [][NextFrame]_vars

\* the counts a setter allows
AllowedCount(op, n) == IF op = "set_channel_count" THEN n > 0 ELSE n >= 0

\* C23: a count setter called with an allowed count n on a collection of m
\* nodes leaves, for n < m, exactly the first n of them, in order and with
\* their attributes, and for n >= m the m nodes as the first m of the
\* collection.
C23_ShrinkRemovesTail ==
    (/\ last.op \in {"set_channel_count", "set_plane_count", "set_tiffdata_count"}
     /\ AllowedCount(last.op, last.arg)) =>
        LET now == Children(root, FrameTag(last.op))
            m == Len(last.pre)
        IN  IF last.arg < m THEN now = SubSeq(last.pre, 1, last.arg)
            ELSE Len(now) >= m /\ SubSeq(now, 1, m) = last.pre

----------------------------------------------------------------------------
(* Partly built units *)

ROIsOf(r) == KeepAt(r.kids, FindAll(r.kids, "ROI"))

\* C24: in every state left by a count setter, returned or raised, every
\* Image has a Pixels with a Channel, every Channel of the first Pixels has
\* an ID and SamplesPerPixel, and every ROI has one Union holding a
\* Rectangle: no unit is attached without its defaults.
C24_GrowthAllOrNothing ==
    /\ \A i \in 1..Len(ImagesOf(root)) :
           /\ Count(ImagesOf(root)[i].kids, "Pixels") = 1
           /\ Count(Children(ImagesOf(root)[i], "Pixels")[1].kids, "Channel") >= 1
    /\ \A i \in 1..Len(ChannelsOf(Pixels0(root))) :
           /\ HasAttr(ChannelsOf(Pixels0(root))[i], "ID")
           /\ HasAttr(ChannelsOf(Pixels0(root))[i], "SamplesPerPixel")
    /\ \A i \in 1..Len(ROIsOf(root)) :
           /\ Count(ROIsOf(root)[i].kids, "Union") = 1
           /\ Count(Children(ROIsOf(root)[i], "Union")[1].kids, "Rectangle") = 1

----------------------------------------------------------------------------
(* Identifiers of created wells *)

\* the well IDs that a caller of WellsDucktype.new passes itself
ExplicitWellIDs == WellIDs \ {new_well_id}

\* C25: two wells of a plate that were both created by Well.new(row,
\* column) without a well_id never have the same ID.
C25_FreshIdentifiers ==
    \A p \in 1..plates_len(root) :
        \A i, j \in 1..wells_len(Plate(root, p)) :
            (/\ i # j
             /\ Well_get_ID(all_wells(Plate(root, p))[i]) \notin
                    {<<id>> : id \in ExplicitWellIDs}
             /\ Well_get_ID(all_wells(Plate(root, p))[j]) \notin
                    {<<id>> : id \in ExplicitWellIDs})
                => Well_get_ID(all_wells(Plate(root, p))[i])
                       # Well_get_ID(all_wells(Plate(root, p))[j])

----------------------------------------------------------------------------
(* Original metadata of a parsed document: entries that lack a child or   *)
(* its text                                                               *)

MaxEntries == 2

\* the OriginalMetadata nodes a parsed document can hold: complete ones,
\* named by their key, and the four incomplete forms
EntryShapes == Keys \cup {"NoKey", "NoValue", "KeyNoText", "ValueNoText"}

\* the value of every complete entry
EntryValue == "Zeiss"

OriginalMetadataNode(shape) ==
    LET key == Node("om:Key", NoAttrs,
                    IF shape = "KeyNoText" THEN NoText
                    ELSE IF shape \in Keys THEN <<shape>> ELSE <<"Make">>, <<>>)
        value == Node("om:Value", NoAttrs,
                      IF shape = "ValueNoText" THEN NoText ELSE <<EntryValue>>, <<>>)
    IN  Node("om:OriginalMetadata", NoAttrs, NoText,
             IF shape = "NoKey" THEN <<value>>
             ELSE IF shape = "NoValue" THEN <<key>>
             ELSE <<key, value>>)

\* <StructuredAnnotations> with one XMLAnnotation per entry, IDs by position
EntriesDocument(shapes) ==
    Node("StructuredAnnotations", NoAttrs, NoText,
         [i \in 1..Len(shapes) |->
             Node("XMLAnnotation", SetAttr(NoAttrs, "ID", uuid4(i)), NoText,
                  <<Node("sa:Value", NoAttrs, NoText,
                         <<OriginalMetadataNode(shapes[i])>>)>>)])

\* logger.warn calls that a run of the generator completes: the one call
\* site evaluates om_node.toxml() for its argument first
warnings(sa) ==
    Len(SelectSeq(iter_original_metadata(sa), LAMBDA item : item.kind = "warn"))

IterCall(op, key, out, items, value, warned) ==
    [op |-> op, key |-> key, out |-> out, items |-> items, value |-> value,
     warned |-> warned]

InitIter ==
    /\ inp \in SeqsUpTo(EntryShapes, MaxEntries)
    /\ root = EntriesDocument(inp)
    /\ last = IterCall("init", "", "ok", <<>>, "", 0)
    /\ uuid = 0

IterList ==
    LET res == list_original_metadata(root)
    IN  /\ last' = IterCall("iter_original_metadata", "", res.out, res.items, "",
                            warnings(root))
        /\ UNCHANGED <<root, inp, uuid>>

IterHas ==
    \E key \in Keys :
        LET res == has_original_metadata(root, key)
        IN  /\ last' = IterCall("has_original_metadata", key, res.out, <<>>,
                                IF res.result THEN "True" ELSE "False", 0)
            /\ UNCHANGED <<root, inp, uuid>>

IterGet ==
    \E key \in Keys, default \in MetaDefaults :
        LET res == get_original_metadata_value(root, key, default)
        IN  /\ last' = IterCall("get_original_metadata_value", key, res.out, <<>>,
                                res.value, 0)
            /\ UNCHANGED <<root, inp, uuid>>

NextIter == IterList \/ IterHas \/ IterGet

SpecIter == InitIter /\ [][NextIter]_vars

\* positions of inp that hold a complete entry, in document order
WellFormed == SelectSeq([i \in 1..Len(inp) |-> i], LAMBDA i : inp[i] \in Keys)

\* C26: the iteration never raises; it yields, in document order, one
\* (annotation ID, (key, value)) per OriginalMetadata node that has a Key
\* and a Value with text, and logs one diagnostic per node that lacks one of
\* them; a key of a complete entry is found by has_original_metadata and
\* get_original_metadata_value wherever the incomplete entries are.
C26_MalformedEntriesSkipped ==
    /\ last.out = "ok"
    /\ last.op = "iter_original_metadata" =>
          /\ last.items = [n \in 1..Len(WellFormed) |->
                              [kind |-> "item", id |-> <<uuid4(WellFormed[n])>>,
                               key |-> inp[WellFormed[n]], value |-> EntryValue]]
          /\ last.warned = Len(inp) - Len(WellFormed)
    /\ last.op = "has_original_metadata" =>
          (last.value = "True" <=> \E i \in 1..Len(inp) : inp[i] = last.key)
    /\ last.op = "get_original_metadata_value" =>
          (last.value = EntryValue <=> \E i \in 1..Len(inp) : inp[i] = last.key)

----------------------------------------------------------------------------
(* Measured values set on an entity that already carries its unit *)

\* the unit attributes of the measured values a class has setters for
ClassUnits(cls) ==
    IF cls = "Pixels" THEN <<"TimeIncrementUnit">>
    ELSE IF cls = "Channel" THEN <<"PinholeSizeUnit", "ExcitationWavelengthUnit">>
    ELSE IF cls = "LightSourceSettings" THEN <<"WavelengthUnit">>
    ELSE IF cls = "LightSource" THEN <<"PowerUnit">>
    ELSE <<>>

\* unit attributes of a parsed entity: absent, or one of two tokens
PresetUnits == {<<>>, S_nm, S_s}

RECURSIVE WithUnits(_, _, _)
WithUnits(node, units, u) ==
    IF units = <<>> \/ u = <<>> THEN node
    ELSE WithUnits(Set(node, Head(units), u), Tail(units), u)

\* one entity node of some class as a parsed document gives it
InitUnit ==
    /\ inp \in [cls : Classes, unit : PresetUnits]
    /\ root = WithUnits(Node(inp.cls, NoAttrs, NoText, <<>>), ClassUnits(inp.cls), inp.unit)
    /\ last = AttrCall("init", PyInt(0), "ok")
    /\ uuid = 0

SpecUnit == InitUnit /\ [][NextAttr]_vars

\* C27: on an entity whose unit attribute holds u, setting the measured
\* value to a positive magnitude succeeds and the unit attribute still
\* holds u; PinholeSizeUnit = "nm" followed by PinholeSize = 2 leaves "nm".
C27_UnitNotOverwritten ==
    [][(/\ last'.op \in DOMAIN Measured
        /\ HasAttr(root, Measured[last'.op][2])
        /\ float(last'.arg).out = "ok"
        /\ float(last'.arg).h > 0) =>
           /\ last'.out = "ok"
           /\ HasAttr(root', Measured[last'.op][2])
           /\ root'.attrs[Measured[last'.op][2]] = root.attrs[Measured[last'.op][2]]]_vars

----------------------------------------------------------------------------
(* Attribute accessors as pairs: a setter, then the getter of the same    *)
(* attribute                                                              *)

\* what a getter returns: a Python value, or None
None == [type |-> "NoneType", h |-> 0, s |-> <<>>]
Got(out, value) == [out |-> out, value |-> value]

\* utils.get_int_attr
get_int_attr(node, attribute) ==
    IF ~HasAttr(node, attribute) THEN Got("ok", None)
    ELSE IF Loaded(node.attrs[attribute]).type = "int"
    THEN Got("ok", Loaded(node.attrs[attribute]))
    ELSE IF Loaded(node.attrs[attribute]).type = "float"
    THEN Got("ok", PyInt(Loaded(node.attrs[attribute]).h \div 2))
    ELSE IF IntParses(node.attrs[attribute])
    THEN Got("ok", PyInt(StrToInt(node.attrs[attribute])))
    ELSE Got("ValueError", None)

\* return self.node.get(attribute)
node_get(node, attribute) ==
    IF HasAttr(node, attribute) THEN Got("ok", Loaded(node.attrs[attribute]))
    ELSE Got("ok", None)

\* OMEXML.Channel.get_IlluminationType: the body has no return statement
get_IlluminationType(node) == Got("ok", None)
set_IlluminationType(node, value) == Ret(Set(node, "IlluminationType", str(value)), "ok")

\* OMEXML.Channel.get_PinholeSizeUnit: no return statement
get_PinholeSizeUnit(node) == Got("ok", None)

\* Types.Shape.get_StrokeDashArray: no return statement
get_StrokeDashArray(node) == Got("ok", None)
set_StrokeDashArray(node, value) == Ret(Set(node, "StrokeDashArray", str(value)), "ok")

S_True == <<"T", "r", "u", "e">>
S_False == <<"F", "a", "l", "s", "e">>

\* bool(value)
bool(value) == IF value.type = "str" THEN value.s # <<>> ELSE value.h # 0

\* Types.Shape.get_Locked: no return statement; set_Locked stores a bool
get_Locked(node) == Got("ok", None)
set_Locked(node, value) ==
    Ret(Set(node, "Locked", <<"bool">> \o (IF bool(value) THEN S_True ELSE S_False)), "ok")

S_EvenOdd == <<"E", "v", "e", "n", "O", "d", "d">>
S_NonZero == <<"N", "o", "n", "Z", "e", "r", "o">>

\* Types.Shape.get_FillRule / set_FillRule: self.node.set("FillRule") lacks
\* the value argument
get_FillRule(node) == node_get(node, "FillRule")
set_FillRule(node, value) ==
    IF value \notin {PyStr(S_EvenOdd), PyStr(S_NonZero)} THEN Ret(node, "ValueError")
    ELSE Ret(node, "TypeError")

\* OMEXML.Objective.get_WorkingDistanceUnit / set_WorkingDistanceUnit
get_WorkingDistanceUnit(node) == get_int_attr(node, "WorkingDistanceUnit")
set_WorkingDistanceUnit(node, value) ==
    Ret(Set(node, "WorkingDistanceUnit", str(value)), "ok")

\* OMEXML.Pixels.get_SizeC / set_SizeC
get_SizeC(node) == get_int_attr(node, "SizeC")
set_SizeC(node, value) == Ret(Set(node, "SizeC", str(value)), "ok")

\* OMEXML.Pixels.get_TimeIncrementUnit
get_TimeIncrementUnit(node) == node_get(node, "TimeIncrementUnit")

PairClasses == {"Channel", "Shape", "Objective", "Pixels"}

\* whether cls(node) can be built; Objective derives from ManufacturerSpec
PairView(cls, node, res) ==
    IF cls \in {"Channel", "Shape"} /\ LSID_init # "ok" THEN Ret(node, LSID_init) ELSE res

Sizes == {PyInt(1), PyInt(2), PyInt(3)}
Texts == {PyStr(S_nm), PyStr(S_s), PyStr(S_mW), PyStr(S_EvenOdd)}

\* an entity node of a parsed document, with or without a Name attribute
InitPair ==
    /\ inp \in [cls : PairClasses, name : {<<>>, S_abc}]
    /\ root = Node(inp.cls,
                   IF inp.name = <<>> THEN NoAttrs ELSE SetAttr(NoAttrs, "Name", inp.name),
                   NoText, <<>>)
    /\ last = AttrCall("init", PyInt(0), "ok")
    /\ uuid = 0

PairIlluminationType ==
    \E value \in Texts :
        LET res == PairView("Channel", root, set_IlluminationType(root, value))
        IN  /\ inp.cls = "Channel"
            /\ root' = res.node
            /\ last' = AttrCall("set_IlluminationType", value, res.out)
            /\ UNCHANGED <<inp, uuid>>

PairPinholeSizeUnit ==
    \E value \in Texts :
        LET res == PairView("Channel", root, set_PinholeSizeUnit(root, value))
        IN  /\ inp.cls = "Channel"
            /\ root' = res.node
            /\ last' = AttrCall("set_PinholeSizeUnit", value, res.out)
            /\ UNCHANGED <<inp, uuid>>

PairStrokeDashArray ==
    \E value \in Texts :
        LET res == PairView("Shape", root, set_StrokeDashArray(root, value))
        IN  /\ inp.cls = "Shape"
            /\ root' = res.node
            /\ last' = AttrCall("set_StrokeDashArray", value, res.out)
            /\ UNCHANGED <<inp, uuid>>

PairLocked ==
    \E value \in Sizes \cup {PyInt(0)} :
        LET res == PairView("Shape", root, set_Locked(root, value))
        IN  /\ inp.cls = "Shape"
            /\ root' = res.node
            /\ last' = AttrCall("set_Locked", value, res.out)
            /\ UNCHANGED <<inp, uuid>>

PairFillRule ==
    \E value \in Texts \cup {PyStr(S_NonZero)} :
        LET res == PairView("Shape", root, set_FillRule(root, value))
        IN  /\ inp.cls = "Shape"
            /\ root' = res.node
            /\ last' = AttrCall("set_FillRule", value, res.out)
            /\ UNCHANGED <<inp, uuid>>

PairWorkingDistanceUnit ==
    \E value \in Texts \cup Sizes :
        LET res == PairView("Objective", root, set_WorkingDistanceUnit(root, value))
        IN  /\ inp.cls = "Objective"
            /\ root' = res.node
            /\ last' = AttrCall("set_WorkingDistanceUnit", value, res.out)
            /\ UNCHANGED <<inp, uuid>>

PairSizeC ==
    \E value \in Sizes :
        LET res == PairView("Pixels", root, set_SizeC(root, value))
        IN  /\ inp.cls = "Pixels"
            /\ root' = res.node
            /\ last' = AttrCall("set_SizeC", value, res.out)
            /\ UNCHANGED <<inp, uuid>>

PairTimeIncrementUnit ==
    \E value \in Texts :
        LET res == PairView("Pixels", root, set_TimeIncrementUnit(root, value))
        IN  /\ inp.cls = "Pixels"
            /\ root' = res.node
            /\ last' = AttrCall("set_TimeIncrementUnit", value, res.out)
            /\ UNCHANGED <<inp, uuid>>

NextPair ==
    \/ PairIlluminationType
    \/ PairPinholeSizeUnit
    \/ PairStrokeDashArray
    \/ PairLocked
    \/ PairFillRule
    \/ PairWorkingDistanceUnit
    \/ PairSizeC
    \/ PairTimeIncrementUnit

SpecPair == InitPair /\ [][NextPair]_vars

\* setter |-> the attribute it writes
Accessors ==
    [set_IlluminationType |-> "IlluminationType",
     set_PinholeSizeUnit |-> "PinholeSizeUnit",
     set_StrokeDashArray |-> "StrokeDashArray",
     set_Locked |-> "Locked",
     set_FillRule |-> "FillRule",
     set_WorkingDistanceUnit |-> "WorkingDistanceUnit",
     set_SizeC |-> "SizeC",
     set_TimeIncrementUnit |-> "TimeIncrementUnit"]

\* the getter paired with a setter, applied to the node
Getter(op, node) ==
    CASE op = "set_IlluminationType" -> get_IlluminationType(node)
      [] op = "set_PinholeSizeUnit" -> get_PinholeSizeUnit(node)
      [] op = "set_StrokeDashArray" -> get_StrokeDashArray(node)
      [] op = "set_Locked" -> get_Locked(node)
      [] op = "set_FillRule" -> get_FillRule(node)
      [] op = "set_WorkingDistanceUnit" -> get_WorkingDistanceUnit(node)
      [] op = "set_SizeC" -> get_SizeC(node)
      [] op = "set_TimeIncrementUnit" -> get_TimeIncrementUnit(node)

Others(node, attribute) ==
    [a \in DOMAIN node.attrs \ {attribute} |-> node.attrs[a]]

\* C28: after a setter has accepted v, the getter of the same attribute
\* returns v, as the string stored for it or as the number it is, and every
\* other attribute of the node is what it was.
C28_AccessorPairs ==
    [][(last'.op \in DOMAIN Accessors /\ last'.out = "ok") =>
        /\ Getter(last'.op, root').out = "ok"
        /\ Getter(last'.op, root').value \in {last'.arg, PyStr(str(last'.arg))}
        /\ Others(root', Accessors[last'.op]) = Others(root, Accessors[last'.op])]_vars

----------------------------------------------------------------------------
(* Identifiers written by ROI and ROIRef growth *)

ROIRefsOf(img) == KeepAt(img.kids, FindAll(img.kids, "ROIRef"))

\* the Rectangle of an ROI carries the defaults of set_roi_count for k
DefaultRectangle(rectangle, k) ==
    /\ AttrIs(rectangle, "ID", S_Shape \o IntToStr(k) \o <<":", "0">>)
    /\ AttrIs(rectangle, "X", IntToStr(0))
    /\ AttrIs(rectangle, "Y", IntToStr(0))
    /\ AttrIs(rectangle, "Width", IntToStr(512))
    /\ AttrIs(rectangle, "Height", IntToStr(512))
    /\ AttrIs(rectangle, "StrokeColor", IntToStr(-16776961))

\* the ROI has ID "ROI:" + k and one Union with one default Rectangle
NumberedROI(node, k) ==
    /\ AttrIs(node, "ID", S_ROI \o IntToStr(k))
    /\ Count(node.kids, "Union") = 1
    /\ Count(Children(node, "Union")[1].kids, "Rectangle") = 1
    /\ DefaultRectangle(Children(Children(node, "Union")[1], "Rectangle")[1], k)

\* C29: every ROI has an ID "ROI:" + k with k a non-negative integer and
\* holds one Union with one Rectangle of ID "Shape:" + k + ":0", X = 0,
\* Y = 0, Width = 512, Height = 512, StrokeColor = -16776961; the IDs of
\* the ROIs are pairwise distinct; and when roi_count and the image's
\* roiref_count are the same n, ROI i and ROIRef i have the same ID.
C29_LinkedROIIdentifiers ==
    /\ \A i \in 1..Len(ROIsOf(root)) :
           \E k \in 0..MaxROIs : NumberedROI(ROIsOf(root)[i], k)
    /\ \A i, j \in 1..Len(ROIsOf(root)) :
           i # j => ROIsOf(root)[i].attrs["ID"] # ROIsOf(root)[j].attrs["ID"]
    /\ Len(ROIsOf(root)) = Len(ROIRefsOf(Image0(root))) =>
           \A i \in 1..Len(ROIsOf(root)) :
               /\ HasAttr(ROIRefsOf(Image0(root))[i], "ID")
               /\ ROIRefsOf(Image0(root))[i].attrs["ID"] = ROIsOf(root)[i].attrs["ID"]

====
